---- MODULE Spec2Model ----
(***************************************************************************)
(* The joke generator's admission control and request life cycle.          *)
(*                                                                         *)
(*  - src/joke-generator/lib/rate-limiter.ts : the token-bucket            *)
(*    RateLimiter (a fixed-window reset counter),                          *)
(*  - src/joke-generator/lib/joke-generator.ts : JokeGenerator.fetchJoke,  *)
(*    which gates each request through that limiter,                       *)
(*  - src/tools/joke-generator/lib/rate-limiter.ts : the scheduler         *)
(*    RateLimiter (a Bottleneck limiter with a reservoir),                 *)
(*  - src/tools/joke-generator/lib/client.ts : JokeApiClient.getJoke,      *)
(*    which runs each request through that scheduler, with a timeout.      *)
(*                                                                         *)
(* Spec     : one RateLimiter driven by direct calls and clock advances.   *)
(* SpecGen  : one JokeGenerator with concurrent fetchJoke calls sharing    *)
(*            its RateLimiter.                                             *)
(* FairSpecGen : SpecGen with the event loop's guarantee that a settled    *)
(*            promise's continuation runs.                                 *)
(* SpecCls  : how fetchJoke and getJoke settle on each kind of response.   *)
(* SpecClient : one JokeApiClient with concurrent getJoke calls, its       *)
(*            scheduler, the abort timers and stop().                      *)
(* FairSpecClient : SpecClient with the progress that Bottleneck, the      *)
(*            timers, the transport and the event loop guarantee.          *)
(* SpecCalls : single calls of the URL builders and the formatters, on     *)
(*            every argument explored.                                     *)
(* SpecHelper : concurrent calls of the module-level getRandomJoke, which  *)
(*            share the default JokeGenerator.                             *)
(* SpecSolo : one caller of one RateLimiter, observed next to a twin run   *)
(*            without status queries, with the retry hint of its last      *)
(*            denial and the grants of the last windowMs.                  *)
(***************************************************************************)
EXTENDS Integers, Sequences, FiniteSets, TLC

(* ---------------- bounds of the model ---------------- *)

\* largest config.maxRequests explored (0 is explored too)
MaxCap == 2
\* largest config.windowMs explored (0 is explored too)
MaxWindow == 2
\* the clock (Date.now()) runs from 0, the construction time, to MaxTime
MaxTime == 5
\* number of fetchJoke calls that may be pending at the same time
NumReq == 2
\* largest advance of the clock between two Date.now() reads of one
\* synchronous stretch of code
MaxDrift == 1

\* number of getJoke calls that may be pending at the same time
NumJobs == 2
\* largest maxRequests of the scheduler explored (0 is explored too)
MaxReservoir == 2
\* largest intervalMs of the scheduler explored, in clock steps
MaxIntervalTicks == 3
\* largest options.timeout explored, in clock steps
MaxTimeoutTicks == 1

\* longest list of categories or of flags explored
MaxList == 2
\* largest options.amount and getMultipleJokes count explored (above the
\* largest amount the code lets through)
MaxCount == 12

\* the call counters saturate here (above every capacity)
MaxCalls == MaxCap + 2

Reqs == 1..NumReq

Min(a, b) == IF a <= b THEN a ELSE b

VARIABLES
  config,          \* RateLimiter.config : [maxRequests, windowMs]
  state,           \* RateLimiter.state  : [tokens, lastRefill]
  now,             \* Date.now()
  ret,             \* the last RateLimiter call and what it returned
  freshCalls,      \* tryConsume() calls made while no time has elapsed since
                   \* construction (saturating at MaxCalls)
  freshGrants,     \* those of them that returned true
  grantsInWindow,  \* tryConsume() calls that returned true since the last refill
  pc,              \* pc[r] : where fetchJoke call r stands
  net,             \* net[r] : what the awaited promise of call r settled with
  retryAfter,      \* retryAfter[r] : RateLimitError.retryAfter of call r
  fetchCalls,      \* fetchCalls[r] : fetch() invocations made by call r
  resp,            \* what happened to the request being classified
  genOut,          \* how JokeGenerator.fetchJoke settled on resp
  cliOut,          \* how JokeApiClient.getJoke settled on resp
  seen,            \* the (variant, failure cause, error class) triples observed
  schedCfg,        \* the scheduler RateLimiter's config : [maxRequests, intervalMs]
  reservoir,       \* Bottleneck's reservoir
  sinceRefresh,    \* ms since the last reservoir refresh (or the construction),
                   \* counted up to intervalMs
  nextRequestIn,   \* ms from now to Bottleneck's next allowed launch time
  queue,           \* the QUEUED jobs, oldest first
  stopPhase,       \* how far RateLimiter.stop() has got
  jpc,             \* jpc[j] : where getJoke call j stands
  jnet,            \* jnet[j] : what the awaited promise of call j settled with
  wait,            \* wait[j] : ms left before the registered job j is launched
  timer,           \* timer[j] : ms left on the abort timer of call j, or NoTimer
  jfetches,        \* jfetches[j] : fetch() invocations made by call j
  startsInWindow,  \* jobs launched since the last refresh
  refreshed,       \* whether the reservoir has been refreshed since construction
  laterStop,       \* how a stop() called after the first stop() settled
  waited,          \* ms the call in slot 1 has been waiting for its launch
                   \* since getJoke was called (up to MaxWaited), 0 when
                   \* it is not waiting
  sinceLaunch,     \* ms since the last launch of a job (up to MinTime), -1
                   \* before the first launch
  order,           \* the calls scheduled and not yet launched or rejected, in
                   \* the order of their schedule()
  call,            \* the call of a URL builder or formatter under examination
  result,          \* what that call produced, or NoResult before it is made
  defaultGenerators, \* the JokeGenerators the module-level getRandomJoke
                   \* has constructed (0: defaultGenerator is null)
  quiet,           \* the limiter of a twin run that makes the same
                   \* tryConsume() calls at the same clock values and no
                   \* status query: its state and its last result
  hint,            \* the clock value at which the retry hint of the last
                   \* denial runs out (-1: the last attempt was granted),
                   \* and whether the last attempt was made at or after
                   \* the time the hint before it ran out
  recent           \* recent[a]: the grants at clock value now - a

limVars == <<config, state, now, ret, freshCalls, freshGrants, grantsInWindow>>
genVars == <<pc, net, retryAfter, fetchCalls>>
clsVars == <<resp, genOut, cliOut, seen>>
schVars == <<schedCfg, reservoir, sinceRefresh, nextRequestIn, queue, stopPhase,
            jpc, jnet, wait, timer, jfetches, startsInWindow,
            refreshed, laterStop, waited, sinceLaunch, order>>
pureVars == <<call, result>>
soloVars == <<quiet, hint, recent>>
\* what the RateLimiter and JokeGenerator.fetchJoke never touch
otherVars == <<clsVars, schVars, pureVars, defaultGenerators, soloVars>>
\* what the scheduler and JokeApiClient.getJoke never touch
nonSchVars == <<limVars, genVars, clsVars, pureVars, defaultGenerators,
               soloVars>>
vars == <<config, state, now, ret, freshCalls, freshGrants, grantsInWindow,
          pc, net, retryAfter, fetchCalls, resp, genOut, cliOut, seen,
          schedCfg, reservoir, sinceRefresh, nextRequestIn, queue, stopPhase,
          jpc, jnet, wait, timer, jfetches, startsInWindow,
          refreshed, order, laterStop, waited, sinceLaunch, call, result,
          defaultGenerators, quiet, hint, recent>>

(* ---------------- RateLimiter (token bucket) ---------------- *)

\* Math.max
Max(a, b) == IF a >= b THEN a ELSE b

\* the condition of refill(): at least windowMs since the window anchor
WindowElapsed(st, t) == t - st.lastRefill >= config.windowMs

\* refill() with a continuous leak: a partially elapsed window gives one
\* token back
refill_leak(st, t) ==
  LET timePassed == t - st.lastRefill IN
  IF timePassed >= config.windowMs
    THEN [tokens |-> config.maxRequests, lastRefill |-> t]
    ELSE IF timePassed > 0
      THEN [st EXCEPT !.tokens = Min(config.maxRequests, @ + 1)]
      ELSE st

\* refill() that adds a budget instead of resetting to it
refill_accumulate(st, t) ==
  LET timePassed == t - st.lastRefill IN
  IF timePassed >= config.windowMs
    THEN [tokens |-> st.tokens + config.maxRequests, lastRefill |-> t]
    ELSE st

\* refill() that needs more than windowMs to have passed
refill_strict(st, t) ==
  LET timePassed == t - st.lastRefill IN
  IF timePassed > config.windowMs
    THEN [tokens |-> config.maxRequests, lastRefill |-> t]
    ELSE st

\* refill() that resets one millisecond before the window has elapsed
refill_early(st, t) ==
  LET timePassed == t - st.lastRefill IN
  IF timePassed >= config.windowMs - 1
    THEN [tokens |-> config.maxRequests, lastRefill |-> t]
    ELSE st

\* refill() that moves the anchor by whole windows instead of to the clock
refill_aligned(st, t) ==
  LET timePassed == t - st.lastRefill IN
  IF timePassed >= config.windowMs
    THEN [tokens |-> config.maxRequests,
          lastRefill |-> st.lastRefill + config.windowMs]
    ELSE st

\* RateLimiter.refill, reading Date.now() = t
refill(st, t) ==
  LET timePassed == t - st.lastRefill IN
  IF timePassed >= config.windowMs
    THEN [tokens |-> config.maxRequests, lastRefill |-> t]
    ELSE st

\* tryConsume() that grants while tokens >= 0
tryConsume_offByOne(st, t) ==
  LET s1 == refill(st, t) IN
  IF s1.tokens >= 0
    THEN [state |-> [s1 EXCEPT !.tokens = @ - 1], ok |-> TRUE]
    ELSE [state |-> s1, ok |-> FALSE]

\* tryConsume() that forgets to take the token
tryConsume_noDecrement(st, t) ==
  LET s1 == refill(st, t) IN
  IF s1.tokens > 0
    THEN [state |-> s1, ok |-> TRUE]
    ELSE [state |-> s1, ok |-> FALSE]

\* tryConsume() that takes two tokens for a grant
tryConsume_takesTwo(st, t) ==
  LET s1 == refill(st, t) IN
  IF s1.tokens > 0
    THEN [state |-> [s1 EXCEPT !.tokens = @ - 2], ok |-> TRUE]
    ELSE [state |-> s1, ok |-> FALSE]

\* RateLimiter.tryConsume, reading Date.now() = t: the new state and the result
tryConsume(st, t) ==
  LET s1 == refill(st, t) IN
  IF s1.tokens > 0
    THEN [state |-> [s1 EXCEPT !.tokens = @ - 1], ok |-> TRUE]
    ELSE [state |-> s1, ok |-> FALSE]

\* getAvailableTokens() that hands the whole budget back
getAvailableTokens_resetting(st, t) ==
  LET s1 == [refill(st, t) EXCEPT !.tokens = config.maxRequests] IN
  [state |-> s1, n |-> s1.tokens]

\* getAvailableTokens() that takes a token while it looks
getAvailableTokens_consuming(st, t) ==
  LET s1 == refill(st, t) IN
  IF s1.tokens > 0
    THEN [state |-> [s1 EXCEPT !.tokens = @ - 1], n |-> s1.tokens]
    ELSE [state |-> s1, n |-> s1.tokens]

\* RateLimiter.getAvailableTokens, reading Date.now() = t
getAvailableTokens(st, t) ==
  LET s1 == refill(st, t) IN [state |-> s1, n |-> s1.tokens]

\* getTimeUntilRefill() that returns the time since the refill
getTimeUntilRefill_elapsed(st, t) ==
  LET timeSinceRefill == t - st.lastRefill IN
  Max(0, timeSinceRefill)

\* getTimeUntilRefill() without the clamp at 0
getTimeUntilRefill_noClamp(st, t) ==
  LET timeSinceRefill == t - st.lastRefill IN
  config.windowMs - timeSinceRefill

\* RateLimiter.getTimeUntilRefill, reading Date.now() = t
getTimeUntilRefill(st, t) ==
  LET timeSinceRefill == t - st.lastRefill IN
  Max(0, config.windowMs - timeSinceRefill)

\* grantsInWindow after a tryConsume() at time t that returned ok
CountGrant(st, t, ok) ==
  LET gbase == IF WindowElapsed(st, t) THEN 0 ELSE grantsInWindow
  IN grantsInWindow' = Min(MaxCalls, gbase + (IF ok THEN 1 ELSE 0))

\* the counters after a direct tryConsume() at time t that returned ok
CountCall(st, t, ok) ==
  LET one == IF ok THEN 1 ELSE 0 IN
  /\ freshCalls' = IF t = 0 THEN Min(MaxCalls, freshCalls + 1) ELSE freshCalls
  /\ freshGrants' = IF t = 0 THEN Min(MaxCalls, freshGrants + one) ELSE freshGrants
  /\ CountGrant(st, t, ok)

\* the counters after a call at time t that only refills
CountRefill(st, t) ==
  /\ grantsInWindow' = IF WindowElapsed(st, t) THEN 0 ELSE grantsInWindow
  /\ UNCHANGED <<freshCalls, freshGrants>>

NoRet == [op |-> "none", ok |-> FALSE, n |-> 0]

\* new RateLimiter(config) at Date.now() = 0
InitLimiter ==
  /\ config \in [maxRequests : 0..MaxCap, windowMs : 0..MaxWindow]
  /\ state = [tokens |-> config.maxRequests, lastRefill |-> 0]
  /\ now = 0
  /\ ret = NoRet
  /\ freshCalls = 0
  /\ freshGrants = 0
  /\ grantsInWindow = 0

\* no fetchJoke call in flight
InitIdle ==
  /\ pc = [r \in Reqs |-> "idle"]
  /\ net = [r \in Reqs |-> "none"]
  /\ retryAfter = [r \in Reqs |-> 0]
  /\ fetchCalls = [r \in Reqs |-> 0]

\* the clock advances
Tick ==
  /\ now < MaxTime
  /\ now' = now + 1
  /\ UNCHANGED <<config, state, ret, freshCalls, freshGrants, grantsInWindow>>
  /\ UNCHANGED <<genVars, otherVars>>

\* a direct limiter.tryConsume() call
CallTryConsume ==
  LET r == tryConsume(state, now) IN
  /\ state' = r.state
  /\ ret' = [op |-> "tryConsume", ok |-> r.ok, n |-> 0]
  /\ CountCall(state, now, r.ok)
  /\ UNCHANGED <<config, now>>
  /\ UNCHANGED <<genVars, otherVars>>

\* a direct limiter.getAvailableTokens() call
CallGetAvailableTokens ==
  LET r == getAvailableTokens(state, now) IN
  /\ state' = r.state
  /\ ret' = [op |-> "getAvailableTokens", ok |-> FALSE, n |-> r.n]
  /\ CountRefill(state, now)
  /\ UNCHANGED <<config, now>>
  /\ UNCHANGED <<genVars, otherVars>>

\* a direct limiter.getTimeUntilRefill() call
CallGetTimeUntilRefill ==
  /\ ret' = [op |-> "getTimeUntilRefill", ok |-> FALSE,
             n |-> getTimeUntilRefill(state, now)]
  /\ UNCHANGED <<config, state, now, freshCalls, freshGrants, grantsInWindow>>
  /\ UNCHANGED <<genVars, otherVars>>

(* ---------------- classification of a response ---------------- *)

\* HTTP statuses explored
Statuses == {200, 404, 500}
\* error codes a payload may carry: none (undefined) or one number
Codes == {<<>>, <<106>>}
\* payload messages explored; the empty string stands for every falsy message
\* (empty or missing)
Messages == {"", "No matching joke found"}
\* payload causedBy lists explored: undefined or one reason
Causes == {<<>>, <<"No jokes were found that match your provided filter(s)">>}

\* a body that is not read, or not valid JSON
NoBody == [valid |-> FALSE, error |-> FALSE, code |-> <<>>, message |-> "",
           causedBy |-> <<>>]
\* the bodies that parse as JSON
JsonBodies == [valid : {TRUE}, error : BOOLEAN, code : Codes,
               message : Messages, causedBy : Causes]

\* what can happen to a request: it is refused admission (nothing is
\* fetched), or fetch() settles with a rejection (network failure, or the
\* abort raised by the timeout timer) or with a Response that has a status
\* and a body
Responses ==
     [kind : {"denied", "networkError", "abort"}, status : {0}, body : {NoBody}]
  \cup [kind : {"response"}, status : Statuses, body : JsonBodies \cup {NoBody}]

\* no request is being classified
NoResponse == [kind |-> "none", status |-> 0, body |-> NoBody]
\* a call that has not settled
Pending == [settled |-> "pending", name |-> "", message |-> <<>>,
            code |-> <<>>, causedBy |-> <<>>, readJson |-> FALSE]

InitCls ==
  /\ resp = NoResponse
  /\ genOut = Pending
  /\ cliOut = Pending
  /\ seen = {}

(* ---------------- the scheduler's data ---------------- *)

\* Bottleneck's minTime
MinTime == 100
\* the scheduler's clock advances in steps of this many ms
TickMs == MinTime
\* the abort timer of a call is not armed
NoTimer == -1

Jobs == 1..NumJobs

\* the configurations of the scheduler explored
SchedConfigs == [maxRequests : 0..MaxReservoir,
                 intervalMs : {k * TickMs : k \in 1..MaxIntervalTicks}]
\* the values of options.timeout explored; 0 stands for every falsy value
\* (0 or missing)
TimeoutOptions == {k * TickMs : k \in 0..MaxTimeoutTicks}
\* the defaultTimeout the client is constructed with (above every explored
\* options.timeout)
DefaultTimeout == (MaxTimeoutTicks + 1) * TickMs

\* new RateLimiter(schedCfg): a full reservoir, nothing queued
InitSched ==
  /\ reservoir = schedCfg.maxRequests
  /\ sinceRefresh = 0
  /\ nextRequestIn = 0
  /\ queue = <<>>
  /\ stopPhase = "no"
  /\ jpc = [j \in Jobs |-> "idle"]
  /\ jnet = [j \in Jobs |-> "none"]
  /\ wait = [j \in Jobs |-> 0]
  /\ timer = [j \in Jobs |-> NoTimer]
  /\ jfetches = [j \in Jobs |-> 0]
  /\ startsInWindow = 0
  /\ refreshed = FALSE
  /\ laterStop = "none"
  /\ waited = 0
  /\ sinceLaunch = -1
  /\ order = <<>>

(* ---------------- the URL builders' and formatters' data ---------------- *)

\* no attempt was denied, none was made after a hint ran out
NoHint == [due |-> -1, retried |-> FALSE]
\* no grant at any of the clock values now - MaxWindow .. now
NoRecent == [a \in 0..MaxWindow |-> 0]
\* the observations of the single caller are not kept
InitUnobserved ==
  /\ quiet = [state |-> [tokens |-> 0, lastRefill |-> 0], ok |-> FALSE]
  /\ hint = NoHint
  /\ recent = NoRecent

\* no call is under examination
NoCall == [api |-> "none"]
\* the call has not been made
NoResult == <<"(not called)">>

Init ==
  /\ InitLimiter /\ InitIdle /\ InitCls
  /\ schedCfg = [maxRequests |-> MaxReservoir, intervalMs |-> TickMs]
  /\ InitSched
  /\ call = NoCall
  /\ result = NoResult
  /\ defaultGenerators = 0
  /\ InitUnobserved

Next ==
  \/ Tick
  \/ CallTryConsume
  \/ CallGetAvailableTokens
  \/ CallGetTimeUntilRefill

Spec == Init /\ [][Next]_vars

(* ---------------- JokeGenerator.fetchJoke ---------------- *)

\* the states in which fetchJoke's promise has settled
Settled == {"resolved", "RateLimitError", "JokeAPIError", "Error"}
\* the states in which fetchJoke is suspended at an await
Suspended == {"awaitFetch", "awaitJson"}

\* what the promise returned by fetch() can settle with
FetchOutcomes == {"networkError", "notOk", "ok"}
\* what the promise returned by response.json() can settle with
JsonOutcomes == {"syntaxError", "errorPayload", "joke"}

\* fetchJoke that calls fetch() first and consults the limiter afterwards
FetchJoke_fetchFirst(r) ==
  /\ pc[r] = "idle"
  /\ LET a == tryConsume(state, now) IN
     /\ state' = a.state
     /\ CountGrant(state, now, a.ok)
     /\ fetchCalls' = [fetchCalls EXCEPT ![r] = @ + 1]
     /\ IF a.ok
          THEN /\ pc' = [pc EXCEPT ![r] = "awaitFetch"]
               /\ UNCHANGED <<now, retryAfter>>
          ELSE /\ pc' = [pc EXCEPT ![r] = "RateLimitError"]
               /\ retryAfter' = [retryAfter EXCEPT ![r] = getTimeUntilRefill(a.state, now)]
               /\ UNCHANGED now
  /\ UNCHANGED <<config, ret, freshCalls, freshGrants, net, otherVars>>

\* fetchJoke that suspends between the limiter's check and the decrement:
\* the first step checks tokens > 0, the second takes the token
FetchJoke_suspendInAdmission(r) ==
  \/ /\ pc[r] = "idle"
     /\ LET s1 == refill(state, now) IN
        /\ state' = s1
        /\ IF s1.tokens > 0
             THEN /\ pc' = [pc EXCEPT ![r] = "admitting"]
                  /\ CountGrant(state, now, FALSE)
                  /\ UNCHANGED <<retryAfter>>
             ELSE /\ pc' = [pc EXCEPT ![r] = "RateLimitError"]
                  /\ CountGrant(state, now, FALSE)
                  /\ retryAfter' = [retryAfter EXCEPT ![r] = getTimeUntilRefill(s1, now)]
     /\ UNCHANGED <<config, now, ret, freshCalls, freshGrants, net, fetchCalls,
                  otherVars>>
  \/ /\ pc[r] = "admitting"
     /\ state' = [state EXCEPT !.tokens = @ - 1]
     /\ grantsInWindow' = Min(MaxCalls, grantsInWindow + 1)
     /\ pc' = [pc EXCEPT ![r] = "awaitFetch"]
     /\ fetchCalls' = [fetchCalls EXCEPT ![r] = @ + 1]
     /\ UNCHANGED <<config, now, ret, freshCalls, freshGrants, net, retryAfter,
                  otherVars>>

\* JokeGenerator.fetchJoke up to its first await: the limiter check, then
\* either the RateLimitError (getTimeUntilRefill() reads the clock again,
\* d later) or the fetch() call
FetchJoke(r) ==
  /\ pc[r] = "idle"
  /\ LET a == tryConsume(state, now) IN
     /\ state' = a.state
     /\ CountGrant(state, now, a.ok)
     /\ IF a.ok
          THEN /\ pc' = [pc EXCEPT ![r] = "awaitFetch"]
               /\ fetchCalls' = [fetchCalls EXCEPT ![r] = @ + 1]
               /\ UNCHANGED <<now, retryAfter>>
          ELSE \E d \in 0..MaxDrift :
               /\ now + d <= MaxTime
               /\ now' = now + d
               /\ retryAfter' = [retryAfter EXCEPT ![r] = getTimeUntilRefill(a.state, now + d)]
               /\ pc' = [pc EXCEPT ![r] = "RateLimitError"]
               /\ UNCHANGED fetchCalls
  /\ UNCHANGED <<config, ret, freshCalls, freshGrants, net, otherVars>>

\* the promise awaited by call r settles (the transport's doing)
FetchSettles(r, o) ==
  /\ pc[r] = "awaitFetch"
  /\ net[r] = "none"
  /\ net' = [net EXCEPT ![r] = o]
  /\ UNCHANGED <<pc, retryAfter, fetchCalls>>
  /\ UNCHANGED <<limVars, otherVars>>

\* fetchJoke that calls fetch() again when the first attempt was rejected
AfterFetch_retry(r) ==
  /\ pc[r] = "awaitFetch"
  /\ net[r] # "none"
  /\ IF net[r] = "ok"
       THEN pc' = [pc EXCEPT ![r] = "awaitJson"] /\ UNCHANGED fetchCalls
       ELSE IF net[r] = "networkError" /\ fetchCalls[r] < 2
         THEN /\ fetchCalls' = [fetchCalls EXCEPT ![r] = @ + 1]
              /\ UNCHANGED pc
         ELSE pc' = [pc EXCEPT ![r] = "Error"] /\ UNCHANGED fetchCalls
  /\ net' = [net EXCEPT ![r] = "none"]
  /\ UNCHANGED retryAfter
  /\ UNCHANGED <<limVars, otherVars>>

\* fetchJoke that hands the token back when the request fails
AfterFetch_refund(r) ==
  /\ pc[r] = "awaitFetch"
  /\ net[r] # "none"
  /\ IF net[r] = "ok"
       THEN pc' = [pc EXCEPT ![r] = "awaitJson"] /\ UNCHANGED state
       ELSE /\ pc' = [pc EXCEPT ![r] = "Error"]
            /\ state' = [state EXCEPT !.tokens = Min(config.maxRequests, @ + 1)]
  /\ net' = [net EXCEPT ![r] = "none"]
  /\ UNCHANGED <<retryAfter, fetchCalls>>
  /\ UNCHANGED <<config, now, ret, freshCalls, freshGrants, grantsInWindow,
                 otherVars>>

\* fetchJoke resumes after `await fetch(...)`: a rejection and a response
\* that is not ok both end in the wrapping Error; otherwise response.json()
AfterFetch(r) ==
  /\ pc[r] = "awaitFetch"
  /\ net[r] # "none"
  /\ IF net[r] = "ok"
       THEN pc' = [pc EXCEPT ![r] = "awaitJson"]
       ELSE pc' = [pc EXCEPT ![r] = "Error"]
  /\ net' = [net EXCEPT ![r] = "none"]
  /\ UNCHANGED <<retryAfter, fetchCalls>>
  /\ UNCHANGED <<limVars, otherVars>>

\* the promise of response.json() settles (the transport's doing)
JsonSettles(r, o) ==
  /\ pc[r] = "awaitJson"
  /\ net[r] = "none"
  /\ net' = [net EXCEPT ![r] = o]
  /\ UNCHANGED <<pc, retryAfter, fetchCalls>>
  /\ UNCHANGED <<limVars, otherVars>>

\* fetchJoke resumes after `await response.json()`
AfterJson(r) ==
  /\ pc[r] = "awaitJson"
  /\ net[r] # "none"
  /\ pc' = [pc EXCEPT ![r] =
              CASE net[r] = "syntaxError" -> "Error"
                [] net[r] = "errorPayload" -> "JokeAPIError"
                [] OTHER -> "resolved"]
  /\ net' = [net EXCEPT ![r] = "none"]
  /\ UNCHANGED <<retryAfter, fetchCalls>>
  /\ UNCHANGED <<limVars, otherVars>>

\* the caller has its result or error; slot r may carry the next call
Collect(r) ==
  /\ pc[r] \in Settled
  /\ pc' = [pc EXCEPT ![r] = "idle"]
  /\ retryAfter' = [retryAfter EXCEPT ![r] = 0]
  /\ fetchCalls' = [fetchCalls EXCEPT ![r] = 0]
  /\ UNCHANGED net
  /\ UNCHANGED <<limVars, otherVars>>

\* JokeGenerator.getRateLimitStatus: getAvailableTokens() refills
GetRateLimitStatus ==
  LET a == getAvailableTokens(state, now) IN
  /\ state' = a.state
  /\ CountRefill(state, now)
  /\ UNCHANGED <<config, now, ret>>
  /\ UNCHANGED <<genVars, otherVars>>

NextGen ==
  \/ Tick
  \/ GetRateLimitStatus
  \/ \E r \in Reqs : FetchJoke(r)
  \/ \E r \in Reqs : \E o \in FetchOutcomes : FetchSettles(r, o)
  \/ \E r \in Reqs : AfterFetch(r)
  \/ \E r \in Reqs : \E o \in JsonOutcomes : JsonSettles(r, o)
  \/ \E r \in Reqs : AfterJson(r)
  \/ \E r \in Reqs : Collect(r)

SpecGen == Init /\ [][NextGen]_vars

\* the event loop runs the continuation of every settled promise
FairSpecGen ==
  /\ Init
  /\ [][NextGen]_vars
  /\ \A r \in Reqs : WF_vars(AfterFetch(r)) /\ WF_vars(AfterJson(r))

(* ---------------- the two classifiers ---------------- *)

\* Response.ok
Ok(r) == r.status >= 200 /\ r.status <= 299

\* a rejection with an error of class `name`
Rejected(name, message, code, causedBy, readJson) ==
  [settled |-> "rejected", name |-> name, message |-> message, code |-> code,
   causedBy |-> causedBy, readJson |-> readJson]
\* the parsed payload is returned
Resolved == [settled |-> "resolved", name |-> "", message |-> <<>>,
             code |-> <<>>, causedBy |-> <<>>, readJson |-> TRUE]

\* message || fallback
OrElse(message, fallback) == IF message = "" THEN fallback ELSE message

\* parseResponse that looks at the payload's error indicator before the status
parseResponse_payloadFirst(r) ==
  IF r.body.valid /\ r.body.error
    THEN Rejected("JokeApiClientError",
                  <<OrElse(r.body.message, "API returned an error")>>,
                  r.body.code, r.body.causedBy, TRUE)
  ELSE IF ~Ok(r)
    THEN Rejected("JokeApiClientError",
                  <<"HTTP error! status: ", ToString(r.status)>>,
                  <<r.status>>, <<>>, TRUE)
  ELSE IF ~r.body.valid
    THEN Rejected("SyntaxError", <<"Unexpected token">>, <<>>, <<>>, TRUE)
  ELSE Resolved

\* parseResponse that builds the domain error from the message alone
parseResponse_messageOnly(r) ==
  IF ~Ok(r)
    THEN Rejected("JokeApiClientError",
                  <<"HTTP error! status: ", ToString(r.status)>>,
                  <<r.status>>, <<>>, FALSE)
  ELSE IF ~r.body.valid
    THEN Rejected("SyntaxError", <<"Unexpected token">>, <<>>, <<>>, TRUE)
  ELSE IF r.body.error
    THEN Rejected("JokeApiClientError",
                  <<OrElse(r.body.message, "API returned an error")>>,
                  <<>>, <<>>, TRUE)
  ELSE Resolved

\* JokeApiClient.parseResponse: the status check, then response.json() (a
\* body that is not JSON rejects with the parser's SyntaxError), then the
\* payload's error indicator
parseResponse(r) ==
  IF ~Ok(r)
    THEN Rejected("JokeApiClientError",
                  <<"HTTP error! status: ", ToString(r.status)>>,
                  <<r.status>>, <<>>, FALSE)
  ELSE IF ~r.body.valid
    THEN Rejected("SyntaxError", <<"Unexpected token">>, <<>>, <<>>, TRUE)
  ELSE IF r.body.error
    THEN Rejected("JokeApiClientError",
                  <<OrElse(r.body.message, "API returned an error")>>,
                  r.body.code, r.body.causedBy, TRUE)
  ELSE Resolved

\* JokeApiClient.getJoke: a stopped scheduler refuses the operation;
\* otherwise the scheduled function runs fetchWithTimeout (an abort becomes
\* JokeApiTimeoutError, any other rejection is rethrown as it is), then
\* parseResponse
getJokeOutcome(r) ==
  CASE r.kind = "denied" ->
         Rejected("BottleneckError",
                  <<"This limiter has been stopped and cannot accept new jobs.">>,
                  <<>>, <<>>, FALSE)
    [] r.kind = "abort" ->
         Rejected("JokeApiTimeoutError",
                  <<"Request timed out after ", "timeout", "ms">>, <<>>, <<>>, FALSE)
    [] r.kind = "networkError" ->
         Rejected("TypeError", <<"fetch failed">>, <<>>, <<>>, FALSE)
    [] OTHER -> parseResponse(r)

\* the try block of JokeGenerator.fetchJoke after the limiter let it pass
fetchJokeTry(r) ==
  IF r.kind = "networkError"
    THEN Rejected("TypeError", <<"fetch failed">>, <<>>, <<>>, FALSE)
  ELSE IF ~Ok(r)
    THEN Rejected("Error", <<"HTTP error! status: ", ToString(r.status)>>,
                  <<>>, <<>>, FALSE)
  ELSE IF ~r.body.valid
    THEN Rejected("SyntaxError", <<"Unexpected token">>, <<>>, <<>>, TRUE)
  ELSE IF r.body.error
    THEN Rejected("JokeAPIError",
                  <<OrElse(r.body.message, "Unknown API error")>>,
                  r.body.code, r.body.causedBy, TRUE)
  ELSE Resolved

\* the catch block of JokeGenerator.fetchJoke: the two custom errors pass,
\* every other error is wrapped in a plain Error
fetchJokeCatch(o) ==
  IF o.settled = "rejected" /\ o.name \notin {"JokeAPIError", "RateLimitError"}
    THEN Rejected("Error", <<"Failed to fetch joke: ">> \o o.message,
                  <<>>, <<>>, o.readJson)
    ELSE o

\* JokeGenerator.fetchJoke: the RateLimitError is thrown before the try block
fetchJokeOutcome(r) ==
  IF r.kind = "denied"
    THEN Rejected("RateLimitError",
                  <<"Rate limit exceeded. Please wait before making more requests.">>,
                  <<>>, <<>>, FALSE)
    ELSE fetchJokeCatch(fetchJokeTry(r))

\* the failure cause of the error taxonomy that r is an instance of ("parse":
\* a success status with a body that is not JSON, which the taxonomy leaves out)
FailureCause(r) ==
  CASE r.kind = "denied" -> "admission"
    [] r.kind = "abort" -> "timeout"
    [] r.kind = "networkError" -> "transport"
    [] ~Ok(r) -> "transport"
    [] ~r.body.valid -> "parse"
    [] r.body.error -> "domain"
    [] OTHER -> "none"

\* what a settled call adds to the observed (variant, cause, class) triples
Observed(variant, r, o) ==
  IF o.settled = "rejected"
    THEN {[variant |-> variant, cause |-> FailureCause(r), name |-> o.name]}
    ELSE {}

\* the next request meets its fate, once the previous one is classified
Receive(r) ==
  /\ \/ resp.kind = "none"
     \/ cliOut # Pending /\ (genOut # Pending \/ resp.kind = "abort")
  /\ resp' = r
  /\ genOut' = Pending
  /\ cliOut' = Pending
  /\ UNCHANGED <<seen, limVars, genVars, schVars, pureVars,
                 defaultGenerators, soloVars>>

\* JokeGenerator.fetchJoke settles (it has no timer, so nothing aborts)
ClassifyGen ==
  /\ resp.kind \notin {"none", "abort"}
  /\ genOut = Pending
  /\ genOut' = fetchJokeOutcome(resp)
  /\ seen' = seen \cup Observed("fetchJoke", resp, fetchJokeOutcome(resp))
  /\ UNCHANGED <<resp, cliOut, limVars, genVars, schVars, pureVars,
                 defaultGenerators, soloVars>>

\* JokeApiClient.getJoke settles
ClassifyClient ==
  /\ resp.kind # "none"
  /\ cliOut = Pending
  /\ cliOut' = getJokeOutcome(resp)
  /\ seen' = seen \cup Observed("getJoke", resp, getJokeOutcome(resp))
  /\ UNCHANGED <<resp, genOut, limVars, genVars, schVars, pureVars,
                 defaultGenerators, soloVars>>

NextCls ==
  \/ \E r \in Responses : Receive(r)
  \/ ClassifyGen
  \/ ClassifyClient

\* the classifiers do not depend on the RateLimiter's configuration
InitClassify == Init /\ config = [maxRequests |-> MaxCap, windowMs |-> MaxWindow]

SpecCls == InitClassify /\ [][NextCls]_vars

(* ---------------- the scheduler RateLimiter and JokeApiClient.getJoke -------- *)
(* The scheduler wraps a Bottleneck limiter built with a reservoir of         *)
(* maxRequests that is reset to maxRequests every intervalMs, maxConcurrent 1 *)
(* and minTime 100. A job is QUEUED by schedule(), RUNNING once Bottleneck    *)
(* has registered it (it then holds the one concurrency slot and has taken a  *)
(* reservoir unit) and waits for its launch time, and executes from its      *)
(* launch until its function settles. The phase of Bottleneck's 250 ms       *)
(* heartbeat is left open: a refresh may happen at any instant from           *)
(* intervalMs after the previous one. The clock advances in steps of TickMs.  *)

\* where a call waits for its launch: in Bottleneck's queue, or registered
\* and waiting for its launch time
Waiting == {"QUEUED", "RUNNING"}
\* the waiting time of a call is counted up to just above every timeout
MaxWaited == DefaultTimeout + TickMs
\* where a launched job's function is suspended
Executing == {"awaitFetch", "awaitJson"}
\* the states in which getJoke's promise has settled ("dropped": rejected by
\* stop() while waiting; "refused": rejected by schedule() after stop())
JobSettled == {"resolved", "JokeApiClientError", "JokeApiTimeoutError",
               "TypeError", "SyntaxError", "dropped", "refused"}

\* options.timeout || this.defaultTimeout
effectiveTimeout(t) == IF t # 0 THEN t ELSE DefaultTimeout

\* j without its entry in the sequence q
Without(q, j) == SelectSeq(q, LAMBDA k : k # j)

\* JokeApiClient.getJoke up to schedule(): the job joins the queue, or is
\* rejected at once when stop() has been called. (The timeout that getJoke
\* computes is first used when the scheduled function runs: Launch draws it.)
GetJoke(j) ==
  /\ jpc[j] = "idle"
  /\ IF stopPhase = "no"
       THEN /\ queue' = Append(queue, j)
            /\ order' = Append(order, j)
            /\ jpc' = [jpc EXCEPT ![j] = "QUEUED"]
       ELSE /\ jpc' = [jpc EXCEPT ![j] = "refused"]
            /\ UNCHANGED <<queue, order>>
  /\ UNCHANGED <<schedCfg, refreshed, reservoir, sinceRefresh, nextRequestIn, stopPhase,
                 jnet, wait, timer, jfetches, startsInWindow>>
  /\ UNCHANGED <<nonSchVars, laterStop, waited, sinceLaunch>>

\* a limiter without maxConcurrent: a job is registered while another one
\* is waiting for its launch or executing
Register_concurrent(j) ==
  /\ stopPhase = "no"
  /\ queue # <<>>
  /\ j = Head(queue)
  /\ reservoir >= 1
  /\ reservoir' = reservoir - 1
  /\ wait' = [wait EXCEPT ![j] = nextRequestIn]
  /\ nextRequestIn' = nextRequestIn + MinTime
  /\ queue' = Tail(queue)
  /\ jpc' = [jpc EXCEPT ![j] = "RUNNING"]
  /\ UNCHANGED <<schedCfg, refreshed, sinceRefresh, stopPhase, jnet, timer,
                 jfetches, startsInWindow, order>>
  /\ UNCHANGED <<nonSchVars, laterStop, waited, sinceLaunch>>

\* a limiter that registers the newest queued job first
Register_newestFirst(j) ==
  /\ stopPhase = "no"
  /\ queue # <<>>
  /\ j = queue[Len(queue)]
  /\ \A k \in Jobs : jpc[k] \notin {"RUNNING"} \cup Executing
  /\ reservoir >= 1
  /\ reservoir' = reservoir - 1
  /\ wait' = [wait EXCEPT ![j] = nextRequestIn]
  /\ nextRequestIn' = nextRequestIn + MinTime
  /\ queue' = SubSeq(queue, 1, Len(queue) - 1)
  /\ jpc' = [jpc EXCEPT ![j] = "RUNNING"]
  /\ UNCHANGED <<schedCfg, refreshed, sinceRefresh, stopPhase, jnet, timer,
                 jfetches, startsInWindow, order>>
  /\ UNCHANGED <<nonSchVars, laterStop, waited, sinceLaunch>>

\* a limiter without minTime: the job is launched as soon as it is registered
Register_noMinTime(j) ==
  /\ stopPhase = "no"
  /\ queue # <<>>
  /\ j = Head(queue)
  /\ \A k \in Jobs : jpc[k] \notin {"RUNNING"} \cup Executing
  /\ reservoir >= 1
  /\ reservoir' = reservoir - 1
  /\ wait' = [wait EXCEPT ![j] = 0]
  /\ queue' = Tail(queue)
  /\ jpc' = [jpc EXCEPT ![j] = "RUNNING"]
  /\ UNCHANGED <<schedCfg, refreshed, sinceRefresh, stopPhase, jnet, timer,
                 jfetches, startsInWindow, order, nextRequestIn>>
  /\ UNCHANGED <<nonSchVars, laterStop, waited, sinceLaunch>>

\* a limiter without reservoir: registering takes no unit and needs none
Register_noReservoir(j) ==
  /\ stopPhase = "no"
  /\ queue # <<>>
  /\ j = Head(queue)
  /\ \A k \in Jobs : jpc[k] \notin {"RUNNING"} \cup Executing
  /\ wait' = [wait EXCEPT ![j] = nextRequestIn]
  /\ nextRequestIn' = nextRequestIn + MinTime
  /\ queue' = Tail(queue)
  /\ jpc' = [jpc EXCEPT ![j] = "RUNNING"]
  /\ UNCHANGED <<schedCfg, refreshed, reservoir, sinceRefresh, stopPhase, jnet,
                 timer, jfetches, startsInWindow, order>>
  /\ UNCHANGED <<nonSchVars, laterStop, waited, sinceLaunch>>

\* Bottleneck registers the oldest queued job: no other job holds the
\* concurrency slot and the reservoir has a unit, which the job takes; its
\* launch is set minTime after the previous job's launch time
Register(j) ==
  /\ stopPhase = "no"
  /\ queue # <<>>
  /\ j = Head(queue)
  /\ \A k \in Jobs : jpc[k] \notin {"RUNNING"} \cup Executing
  /\ reservoir >= 1
  /\ reservoir' = reservoir - 1
  /\ wait' = [wait EXCEPT ![j] = nextRequestIn]
  /\ nextRequestIn' = nextRequestIn + MinTime
  /\ queue' = Tail(queue)
  /\ jpc' = [jpc EXCEPT ![j] = "RUNNING"]
  /\ UNCHANGED <<schedCfg, refreshed, sinceRefresh, stopPhase, jnet, timer,
                 jfetches, startsInWindow, order>>
  /\ UNCHANGED <<nonSchVars, laterStop, waited, sinceLaunch>>

\* the launch timer of job j fires: the scheduled function starts, and
\* fetchWithTimeout arms the abort timer with the call's effective timeout
\* (t is its options.timeout) and calls fetch()
Launch(j, t) ==
  /\ jpc[j] = "RUNNING"
  /\ wait[j] = 0
  /\ jpc' = [jpc EXCEPT ![j] = "awaitFetch"]
  /\ timer' = [timer EXCEPT ![j] = effectiveTimeout(t)]
  /\ jfetches' = [jfetches EXCEPT ![j] = @ + 1]
  /\ startsInWindow' = Min(MaxCalls, startsInWindow + 1)
  /\ order' = Without(order, j)
  /\ UNCHANGED <<schedCfg, refreshed, reservoir, sinceRefresh, nextRequestIn, queue,
                 stopPhase, jnet, wait>>
  /\ waited' = IF j = 1 THEN 0 ELSE waited
  /\ sinceLaunch' = 0
  /\ UNCHANGED <<nonSchVars, laterStop>>

\* fetch() of call j settles (the transport's doing)
FetchResponds(j, o) ==
  /\ jpc[j] = "awaitFetch"
  /\ jnet[j] = "none"
  /\ jnet' = [jnet EXCEPT ![j] = o]
  /\ UNCHANGED <<schedCfg, refreshed, reservoir, sinceRefresh, nextRequestIn, queue,
                 stopPhase, jpc, wait, timer, jfetches, startsInWindow, order>>
  /\ UNCHANGED <<nonSchVars, laterStop, waited, sinceLaunch>>

\* the abort timer of call j fires while fetch() is pending:
\* controller.abort() rejects the fetch with an AbortError
AbortFires(j) ==
  /\ jpc[j] = "awaitFetch"
  /\ jnet[j] = "none"
  /\ timer[j] = 0
  /\ jnet' = [jnet EXCEPT ![j] = "abortError"]
  /\ timer' = [timer EXCEPT ![j] = NoTimer]
  /\ UNCHANGED <<schedCfg, refreshed, reservoir, sinceRefresh, nextRequestIn, queue,
                 stopPhase, jpc, wait, jfetches,
                 startsInWindow, order>>
  /\ UNCHANGED <<nonSchVars, laterStop, waited, sinceLaunch>>

\* fetchWithTimeout whose catch rethrows every rejection as it is, the
\* AbortError included
AfterFetchWithTimeout_rethrow(j) ==
  /\ jpc[j] = "awaitFetch"
  /\ jnet[j] # "none"
  /\ timer' = [timer EXCEPT ![j] = NoTimer]
  /\ jpc' = [jpc EXCEPT ![j] =
               CASE jnet[j] \in {"abortError", "networkError"} -> "TypeError"
                 [] jnet[j] = "notOk" -> "JokeApiClientError"
                 [] OTHER -> "awaitJson"]
  /\ jnet' = [jnet EXCEPT ![j] = "none"]
  /\ UNCHANGED <<schedCfg, refreshed, reservoir, sinceRefresh, nextRequestIn, queue,
                 stopPhase, wait, jfetches, startsInWindow, order>>
  /\ UNCHANGED <<nonSchVars, laterStop, waited, sinceLaunch>>

\* fetchWithTimeout resumes after `await fetch(...)` and clears the timer; an
\* AbortError becomes JokeApiTimeoutError, another rejection is rethrown, a
\* response goes to parseResponse, which throws on a status that is not ok
\* and otherwise awaits response.json()
AfterFetchWithTimeout(j) ==
  /\ jpc[j] = "awaitFetch"
  /\ jnet[j] # "none"
  /\ timer' = [timer EXCEPT ![j] = NoTimer]
  /\ jpc' = [jpc EXCEPT ![j] =
               CASE jnet[j] = "abortError" -> "JokeApiTimeoutError"
                 [] jnet[j] = "networkError" -> "TypeError"
                 [] jnet[j] = "notOk" -> "JokeApiClientError"
                 [] OTHER -> "awaitJson"]
  /\ jnet' = [jnet EXCEPT ![j] = "none"]
  /\ UNCHANGED <<schedCfg, refreshed, reservoir, sinceRefresh, nextRequestIn, queue,
                 stopPhase, wait, jfetches,
                 startsInWindow, order>>
  /\ UNCHANGED <<nonSchVars, laterStop, waited, sinceLaunch>>

\* response.json() of call j settles (the transport's doing)
BodyArrives(j, o) ==
  /\ jpc[j] = "awaitJson"
  /\ jnet[j] = "none"
  /\ jnet' = [jnet EXCEPT ![j] = o]
  /\ UNCHANGED <<schedCfg, refreshed, reservoir, sinceRefresh, nextRequestIn, queue,
                 stopPhase, jpc, wait, timer, jfetches, startsInWindow, order>>
  /\ UNCHANGED <<nonSchVars, laterStop, waited, sinceLaunch>>

\* parseResponse resumes after `await response.json()`
AfterParse(j) ==
  /\ jpc[j] = "awaitJson"
  /\ jnet[j] # "none"
  /\ jpc' = [jpc EXCEPT ![j] =
               CASE jnet[j] = "syntaxError" -> "SyntaxError"
                 [] jnet[j] = "errorPayload" -> "JokeApiClientError"
                 [] OTHER -> "resolved"]
  /\ jnet' = [jnet EXCEPT ![j] = "none"]
  /\ UNCHANGED <<schedCfg, refreshed, reservoir, sinceRefresh, nextRequestIn, queue,
                 stopPhase, wait, timer, jfetches,
                 startsInWindow, order>>
  /\ UNCHANGED <<nonSchVars, laterStop, waited, sinceLaunch>>

\* a limiter built without reservoirRefreshAmount: the heartbeat leaves the
\* reservoir as it is
Refresh_keepsReservoir ==
  /\ sinceRefresh >= schedCfg.intervalMs
  /\ sinceRefresh' = 0
  /\ startsInWindow' = 0
  /\ refreshed' = TRUE
  /\ UNCHANGED <<schedCfg, reservoir, nextRequestIn, queue, stopPhase, jpc,
                 jnet, wait, timer, jfetches, order>>
  /\ UNCHANGED <<nonSchVars, laterStop, waited, sinceLaunch>>

\* Bottleneck's heartbeat finds intervalMs elapsed since the last refresh:
\* the reservoir is set to reservoirRefreshAmount
Refresh ==
  /\ sinceRefresh >= schedCfg.intervalMs
  /\ reservoir' = schedCfg.maxRequests
  /\ sinceRefresh' = 0
  /\ startsInWindow' = 0
  /\ refreshed' = TRUE
  /\ UNCHANGED <<schedCfg, nextRequestIn, queue, stopPhase, jpc, jnet,
                 wait, timer, jfetches, order>>
  /\ UNCHANGED <<nonSchVars, laterStop, waited, sinceLaunch>>

\* Bottleneck has a job to register at once: the queue is not empty, the
\* concurrency slot is free and the reservoir has a unit
RegisterDue ==
  /\ stopPhase = "no"
  /\ queue # <<>>
  /\ reservoir >= 1
  /\ \A k \in Jobs : jpc[k] \notin {"RUNNING"} \cup Executing

\* TickMs pass: no timer is due, no continuation (of an awaited promise, or
\* the caller's of a settled call) is ready to run and Bottleneck has no job
\* to register and no waiting job to drop for a stop()
Elapse ==
  /\ ~RegisterDue
  /\ stopPhase # "called"
  /\ \A j \in Jobs : /\ jpc[j] = "RUNNING" => wait[j] > 0
                     /\ timer[j] # 0
                     /\ jnet[j] = "none"
                     /\ jpc[j] \notin JobSettled
  /\ sinceRefresh' = Min(schedCfg.intervalMs, sinceRefresh + TickMs)
  /\ nextRequestIn' = Max(0, nextRequestIn - TickMs)
  /\ wait' = [j \in Jobs |-> Max(0, wait[j] - TickMs)]
  /\ timer' = [j \in Jobs |-> IF timer[j] = NoTimer THEN NoTimer
                              ELSE timer[j] - TickMs]
  /\ UNCHANGED <<schedCfg, refreshed, reservoir, queue, stopPhase, jpc, jnet,
                 jfetches, startsInWindow, order>>
  /\ waited' = IF jpc[1] \in Waiting THEN Min(MaxWaited, waited + TickMs)
                ELSE 0
  /\ sinceLaunch' = IF sinceLaunch = -1 THEN -1
                     ELSE Min(MinTime, sinceLaunch + TickMs)
  /\ UNCHANGED <<nonSchVars, laterStop>>

\* JokeApiClient.stop -> RateLimiter.stop -> Bottleneck.stop with
\* dropWaitingJobs: from this call on nothing is registered and schedule()
\* rejects
Stop ==
  /\ stopPhase = "no"
  /\ stopPhase' = "called"
  /\ UNCHANGED <<schedCfg, refreshed, reservoir, sinceRefresh, nextRequestIn, queue, jpc,
                 jnet, wait, timer, jfetches,
                 startsInWindow, order>>
  /\ UNCHANGED <<nonSchVars, laterStop, waited, sinceLaunch>>

\* stop() drops the jobs that wait: the RUNNING job's launch is cancelled
\* and it is rejected, as is every QUEUED job
StopDrops ==
  /\ stopPhase = "called"
  /\ stopPhase' = "dropped"
  /\ jpc' = [j \in Jobs |-> IF jpc[j] \in {"QUEUED", "RUNNING"} THEN "dropped"
                            ELSE jpc[j]]
  /\ wait' = [j \in Jobs |-> 0]
  /\ queue' = <<>>
  /\ order' = <<>>
  /\ UNCHANGED <<schedCfg, refreshed, reservoir, sinceRefresh, nextRequestIn, jnet, timer, jfetches, startsInWindow>>
  /\ waited' = 0
  /\ UNCHANGED <<nonSchVars, laterStop, sinceLaunch>>

\* a stop() whose promise resolves without the waiting jobs being dropped
StopResolves_withoutDrop ==
  /\ stopPhase = "called"
  /\ stopPhase' = "resolved"
  /\ UNCHANGED <<schedCfg, refreshed, reservoir, sinceRefresh, nextRequestIn,
                 queue, jpc, jnet, wait, timer, jfetches, startsInWindow, order>>
  /\ UNCHANGED <<nonSchVars, laterStop, waited, sinceLaunch>>

\* the promise of stop() resolves once no job is executing any more
StopResolves ==
  /\ stopPhase = "dropped"
  /\ \A j \in Jobs : jpc[j] \notin Executing
  /\ stopPhase' = "resolved"
  /\ UNCHANGED <<schedCfg, refreshed, reservoir, sinceRefresh, nextRequestIn, queue, jpc,
                 jnet, wait, timer, jfetches,
                 startsInWindow, order>>
  /\ UNCHANGED <<nonSchVars, laterStop, waited, sinceLaunch>>

\* RateLimiter.stop() called on a limiter whose stop() has resolved:
\* Bottleneck replaces its stop by a function that returns a promise rejected
\* with BottleneckError("stop() has already been called"), the await throws
\* and the promise of RateLimiter.stop() rejects; nothing else changes
StopAgain ==
  /\ stopPhase = "resolved"
  /\ laterStop = "none"
  /\ laterStop' = "rejected"
  /\ UNCHANGED <<schedCfg, refreshed, reservoir, sinceRefresh, nextRequestIn,
                 queue, stopPhase, jpc, jnet, wait, timer, jfetches,
                 startsInWindow, order, waited, sinceLaunch>>
  /\ UNCHANGED nonSchVars

\* the caller has its result or error; slot j may carry the next call
Release(j) ==
  /\ jpc[j] \in JobSettled
  /\ jpc' = [jpc EXCEPT ![j] = "idle"]
  /\ jfetches' = [jfetches EXCEPT ![j] = 0]
  /\ UNCHANGED <<schedCfg, refreshed, reservoir, sinceRefresh, nextRequestIn, queue,
                 stopPhase, jnet, wait, timer, startsInWindow, order>>
  /\ UNCHANGED <<nonSchVars, laterStop, waited, sinceLaunch>>

NextClient ==
  \/ Elapse
  \/ Refresh
  \/ Stop
  \/ StopDrops
  \/ StopResolves
  \/ StopAgain
  \/ \E j \in Jobs : GetJoke(j)
  \/ \E j \in Jobs : Register(j)
  \/ \E j \in Jobs : \E t \in TimeoutOptions : Launch(j, t)
  \/ \E j \in Jobs : \E o \in FetchOutcomes : FetchResponds(j, o)
  \/ \E j \in Jobs : AbortFires(j)
  \/ \E j \in Jobs : AfterFetchWithTimeout(j)
  \/ \E j \in Jobs : \E o \in JsonOutcomes : BodyArrives(j, o)
  \/ \E j \in Jobs : AfterParse(j)
  \/ \E j \in Jobs : Release(j)

\* a client constructed with any of the explored scheduler configurations
InitClient ==
  /\ InitLimiter /\ config = [maxRequests |-> MaxCap, windowMs |-> MaxWindow]
  /\ InitIdle /\ InitCls
  /\ schedCfg \in SchedConfigs
  /\ InitSched
  /\ call = NoCall
  /\ result = NoResult
  /\ defaultGenerators = 0
  /\ InitUnobserved

SpecClient == InitClient /\ [][NextClient]_vars

\* SpecClient with what the event loop, Bottleneck and the premise that
\* every operation terminates guarantee: time passes, the heartbeat
\* refreshes the reservoir, a job that can be registered is registered, a
\* due launch timer fires, fetch() and response.json() settle, a due abort
\* timer fires and the continuation of a settled promise runs (that of
\* getJoke's caller too)
FairSpecClient ==
  /\ InitClient
  /\ [][NextClient]_vars
  /\ WF_vars(Elapse)
  /\ WF_vars(Refresh)
  /\ \A j \in Jobs :
       /\ WF_vars(Register(j))
       /\ WF_vars(\E t \in TimeoutOptions : Launch(j, t))
       /\ WF_vars(\E o \in FetchOutcomes : FetchResponds(j, o))
       /\ WF_vars(AbortFires(j))
       /\ WF_vars(AfterFetchWithTimeout(j))
       /\ WF_vars(\E o \in JsonOutcomes : BodyArrives(j, o))
       /\ WF_vars(AfterParse(j))
       /\ WF_vars(Release(j))

(* ---------------- the URL builders ---------------- *)
(* A text is the sequence of its pieces (words and separators); the empty  *)
(* string is <<>>. An optional string is the text itself (a missing one    *)
(* and '' are both falsy and never told apart by the code), an optional    *)
(* list is <<>> when missing and <<list>> when given, and the amount 0     *)
(* stands for every falsy amount (missing, 0, NaN).                        *)

\* the category and flag names the lists are drawn from
CategoryNames == {"Programming", "Pun"}
FlagNames == {"nsfw", "religious"}
\* the lists of at most MaxList items of S
Lists(S) == UNION {[1..n -> S] : n \in 0..MaxList}
\* a list that may be missing
OptLists(S) == {<<>>} \cup {<<l>> : l \in Lists(S)}
Langs == {<<>>, <<"en">>}
Types == {<<>>, <<"single">>, <<"twopart">>}
Searches == {<<>>, <<"debug">>, <<"null", " ", "pointer">>}
\* the values of options.amount and of getMultipleJokes' count explored
Counts == -1..MaxCount

\* JokeFetchOptions (category is a string, or an array of strings)
ClientCategories ==
  {[isArray |-> FALSE, items |-> i] :
     i \in {<<>>, <<"Any">>} \cup {<<c>> : c \in CategoryNames}}
  \cup {[isArray |-> TRUE, items |-> l] : l \in Lists(CategoryNames)}
JokeFetchOptions ==
  [category : ClientCategories, lang : Langs,
   blacklistFlags : OptLists(FlagNames), type : Types, contains : Searches,
   amount : Counts]
\* JokeOptions
JokeOptions ==
  [categories : OptLists(CategoryNames), blacklistFlags : OptLists(FlagNames),
   type : Types, searchString : Searches, lang : Langs, amount : Counts]

\* Array.prototype.join
RECURSIVE join(_, _)
join(items, sep) ==
  IF items = <<>> THEN <<>>
  ELSE IF Len(items) = 1 THEN <<items[1]>>
  ELSE <<items[1], sep>> \o join(Tail(items), sep)

\* the application/x-www-form-urlencoded serializer on one piece: letters,
\* digits and * - . _ stay, a space becomes +, another character its
\* percent-encoding
encodePiece(p) ==
  CASE p = "," -> "%2C"
    [] p = " " -> "+"
    [] OTHER -> p
encode(text) == [i \in 1..Len(text) |-> encodePiece(text[i])]
\* what the receiver of the URL reads back from a serialized value
decodePiece(p) ==
  CASE p = "%2C" -> ","
    [] p = "+" -> " "
    [] OTHER -> p
decode(text) == [i \in 1..Len(text) |-> decodePiece(text[i])]

\* URLSearchParams.toString() on the list of <<name, value>> pairs
RECURSIVE paramsToString(_)
paramsToString(params) ==
  IF params = <<>> THEN <<>>
  ELSE <<params[1][1], "=">> \o encode(params[1][2])
       \o (IF Len(params) = 1 THEN <<>>
           ELSE <<"&">> \o paramsToString(Tail(params)))

\* params.append(name, value) when cond holds
appendIf(params, cond, name, value) ==
  IF cond THEN Append(params, <<name, value>>) ELSE params

\* the largest amount the builders let through
MaxAmount == 10
JokeApiClient_baseUrl == <<"https://v2.jokeapi.dev">>
JOKE_API_BASE_URL == <<"https://v2.jokeapi.dev/joke">>
DEFAULT_SAFE_CATEGORIES == <<"Programming", "Misc", "Pun">>

\* a client that puts the listed categories in reverse order
clientCategories_reversed(options) ==
  IF options.category.isArray
    THEN join([i \in 1..Len(options.category.items) |->
                 options.category.items[Len(options.category.items) + 1 - i]],
              ",")
  ELSE IF options.category.items # <<>> THEN options.category.items
  ELSE <<"Any">>

\* JokeApiClient.buildUrl, the path segment
clientCategories(options) ==
  IF options.category.isArray THEN join(options.category.items, ",")
  ELSE IF options.category.items # <<>> THEN options.category.items
  ELSE <<"Any">>

\* a client that emits the amount from 1 on
clientParams_amountFromOne(options) ==
  LET p1 == appendIf(<<>>, options.lang # <<>>, "lang", options.lang)
      p2 == appendIf(p1, /\ options.blacklistFlags # <<>>
                         /\ Len(options.blacklistFlags[1]) > 0,
                     "blacklistFlags", join(options.blacklistFlags[1], ","))
      p3 == appendIf(p2, options.type # <<>>, "type", options.type)
      p4 == appendIf(p3, options.contains # <<>>, "contains", options.contains)
  IN  appendIf(p4, options.amount >= 1 /\ options.amount <= MaxAmount,
               "amount", <<ToString(options.amount)>>)

\* a client that emits blacklistFlags for every list given, an empty one too
clientParams_emptyFlags(options) ==
  LET p1 == appendIf(<<>>, options.lang # <<>>, "lang", options.lang)
      p2 == appendIf(p1, options.blacklistFlags # <<>>,
                     "blacklistFlags", join(options.blacklistFlags[1], ","))
      p3 == appendIf(p2, options.type # <<>>, "type", options.type)
      p4 == appendIf(p3, options.contains # <<>>, "contains", options.contains)
  IN  appendIf(p4, /\ options.amount # 0
                   /\ options.amount > 1
                   /\ options.amount <= MaxAmount,
               "amount", <<ToString(options.amount)>>)

\* JokeApiClient.buildUrl, the query parameters
clientParams(options) ==
  LET p1 == appendIf(<<>>, options.lang # <<>>, "lang", options.lang)
      p2 == appendIf(p1, /\ options.blacklistFlags # <<>>
                         /\ Len(options.blacklistFlags[1]) > 0,
                     "blacklistFlags", join(options.blacklistFlags[1], ","))
      p3 == appendIf(p2, options.type # <<>>, "type", options.type)
      p4 == appendIf(p3, options.contains # <<>>, "contains", options.contains)
  IN  appendIf(p4, /\ options.amount # 0
                   /\ options.amount > 1
                   /\ options.amount <= MaxAmount,
               "amount", <<ToString(options.amount)>>)

\* JokeApiClient.buildUrl
JokeApiClient_buildUrl(options) ==
  LET queryString == paramsToString(clientParams(options))
  IN  JokeApiClient_baseUrl \o <<"/joke/">> \o clientCategories(options)
      \o (IF queryString # <<>> THEN <<"?">> \o queryString ELSE <<>>)

\* JokeGenerator.buildUrl, the path segment
generatorCategories(options) ==
  LET joined == IF options.categories = <<>> THEN <<>>
                ELSE join(options.categories[1], ",")
  IN  IF joined # <<>> THEN joined ELSE join(DEFAULT_SAFE_CATEGORIES, ",")

\* a generator that emits the amount as it is given
generatorParams_noClamp(options) ==
  LET p1 == appendIf(<<>>, /\ options.blacklistFlags # <<>>
                           /\ Len(options.blacklistFlags[1]) > 0,
                     "blacklistFlags", join(options.blacklistFlags[1], ","))
      p2 == appendIf(p1, options.type # <<>>, "type", options.type)
      p3 == appendIf(p2, options.searchString # <<>>, "contains",
                     options.searchString)
      p4 == appendIf(p3, options.lang # <<>>, "lang", options.lang)
      p5 == appendIf(p4, options.amount # 0, "amount",
                     <<ToString(options.amount)>>)
  IN  appendIf(p5, options.blacklistFlags = <<>>, "safe-mode", <<"true">>)

\* JokeGenerator.buildUrl, the query parameters
generatorParams(options) ==
  LET p1 == appendIf(<<>>, /\ options.blacklistFlags # <<>>
                           /\ Len(options.blacklistFlags[1]) > 0,
                     "blacklistFlags", join(options.blacklistFlags[1], ","))
      p2 == appendIf(p1, options.type # <<>>, "type", options.type)
      p3 == appendIf(p2, options.searchString # <<>>, "contains",
                     options.searchString)
      p4 == appendIf(p3, options.lang # <<>>, "lang", options.lang)
      p5 == appendIf(p4, options.amount # 0, "amount",
                     <<ToString(Max(1, Min(MaxAmount, options.amount)))>>)
  IN  appendIf(p5, options.blacklistFlags = <<>>, "safe-mode", <<"true">>)

\* JokeGenerator.buildUrl
JokeGenerator_buildUrl(options) ==
  LET url == JOKE_API_BASE_URL \o <<"/">> \o generatorCategories(options)
      queryString == paramsToString(generatorParams(options))
  IN  IF queryString # <<>> THEN url \o <<"?">> \o queryString ELSE url

\* JokeGenerator.getMultipleJokes up to the URL it requests:
\* fetchJoke({...options, amount}) with the clamped count
getMultipleJokesUrl(count, options) ==
  JokeGenerator_buildUrl(
    [options EXCEPT !.amount = Max(1, Min(MaxAmount, count))])

\* a safe mode that leaves one flag out
programmingOptions_partial(safe) ==
  [category |-> [isArray |-> FALSE, items |-> <<"Programming">>],
   lang |-> <<>>,
   blacklistFlags |->
     IF safe THEN <<(<<"nsfw", "religious", "political", "racist", "sexist">>)>>
     ELSE <<>>,
   type |-> <<>>, contains |-> <<>>, amount |-> 0]

\* JokeApiClient.getProgrammingJoke, the options it passes to getJoke
programmingOptions(safe) ==
  [category |-> [isArray |-> FALSE, items |-> <<"Programming">>],
   lang |-> <<>>,
   blacklistFlags |->
     IF safe THEN <<(<<"nsfw", "religious", "political", "racist", "sexist",
                       "explicit">>)>>
     ELSE <<>>,
   type |-> <<>>, contains |-> <<>>, amount |-> 0]

\* the calls examined
BuilderCalls ==
  [api : {"JokeApiClient.buildUrl"}, options : JokeFetchOptions]
  \cup [api : {"JokeGenerator.buildUrl"}, options : JokeOptions]
  \cup [api : {"JokeGenerator.getMultipleJokes"}, count : Counts,
        options : {o \in JokeOptions : /\ o.type = <<>> /\ o.lang = <<>>
                                       /\ o.searchString = <<>>}]
  \cup [api : {"JokeApiClient.getProgrammingJoke"}, safe : BOOLEAN]

ClientBuildUrl ==
  /\ call.api = "JokeApiClient.buildUrl"
  /\ result = NoResult
  /\ result' = JokeApiClient_buildUrl(call.options)
  /\ UNCHANGED <<call, limVars, genVars, clsVars, schVars, defaultGenerators, soloVars>>

GeneratorBuildUrl ==
  /\ call.api = "JokeGenerator.buildUrl"
  /\ result = NoResult
  /\ result' = JokeGenerator_buildUrl(call.options)
  /\ UNCHANGED <<call, limVars, genVars, clsVars, schVars, defaultGenerators, soloVars>>

GetMultipleJokes ==
  /\ call.api = "JokeGenerator.getMultipleJokes"
  /\ result = NoResult
  /\ result' = getMultipleJokesUrl(call.count, call.options)
  /\ UNCHANGED <<call, limVars, genVars, clsVars, schVars, defaultGenerators, soloVars>>

GetProgrammingJoke ==
  /\ call.api = "JokeApiClient.getProgrammingJoke"
  /\ result = NoResult
  /\ result' = JokeApiClient_buildUrl(programmingOptions(call.safe))
  /\ UNCHANGED <<call, limVars, genVars, clsVars, schVars, defaultGenerators, soloVars>>

(* ---------------- the formatters ---------------- *)
(* A field of a payload is <<>> when the payload lacks it and <<text>> when *)
(* it has it; the result of a formatter is <<>> when it is undefined and    *)
(* <<text>> when it is a string.                                            *)

\* the texts explored
Texts == {<<>>, <<"X">>, <<"Y">>}
\* the payloads with error false that the classifiers hand on as jokes:
\* they are cast to the joke type without a look at their fields
Payloads ==
  [type : {"single", "twopart"},
   joke : {<<>>} \cup {<<t>> : t \in Texts},
   setup : {<<>>} \cup {<<t>> : t \in Texts},
   delivery : {<<>>} \cup {<<t>> : t \in Texts}]
\* the payloads that have the fields of their form, and no others
Jokes ==
  {j \in Payloads :
     IF j.type = "single"
       THEN j.joke # <<>> /\ j.setup = <<>> /\ j.delivery = <<>>
       ELSE j.joke = <<>> /\ j.setup # <<>> /\ j.delivery # <<>>}
\* what fetchJoke resolves with for getMultipleJokes: an object with a jokes
\* array, or one joke
BatchResponses ==
  [hasJokes : {TRUE}, jokes : Lists(Jokes)]
  \cup [hasJokes : {FALSE}, joke : Jokes]

\* `${v}` in a template literal
interpolate(v) == IF v = <<>> THEN <<"undefined">> ELSE v[1]

\* a formatter that puts the delivery first
formatJoke_deliveryFirst(joke) ==
  IF joke.type = "single" THEN joke.joke
  ELSE <<interpolate(joke.delivery) \o <<"\n">> \o interpolate(joke.setup)>>

\* JokeApiClient.formatJoke
formatJoke(joke) ==
  IF joke.type = "single" THEN joke.joke
  ELSE <<interpolate(joke.setup) \o <<"\n">> \o interpolate(joke.delivery)>>

\* the formatting in JokeGenerator.getRandomJoke and getMultipleJokes
\* (joke.joke || '' for the single form)
formatResponse(joke) ==
  IF joke.type = "single"
    THEN <<(IF joke.joke = <<>> THEN <<>> ELSE joke.joke[1])>>
  ELSE <<interpolate(joke.setup) \o <<"\n">> \o interpolate(joke.delivery)>>

\* JokeGenerator.getMultipleJokes from the response of fetchJoke on
getMultipleJokesResult(response) ==
  IF response.hasJokes
    THEN [i \in 1..Len(response.jokes) |-> formatResponse(response.jokes[i])]
  ELSE <<formatResponse(response.joke)>>

FormatterCalls ==
  [api : {"JokeApiClient.formatJoke", "JokeGenerator.getRandomJoke"},
   joke : Payloads]
  \cup [api : {"JokeGenerator.getMultipleJokes result"},
        response : BatchResponses]

FormatJoke ==
  /\ call.api = "JokeApiClient.formatJoke"
  /\ result = NoResult
  /\ result' = formatJoke(call.joke)
  /\ UNCHANGED <<call, limVars, genVars, clsVars, schVars, defaultGenerators, soloVars>>

\* JokeGenerator.getRandomJoke once fetchJoke has resolved with call.joke
GetRandomJoke ==
  /\ call.api = "JokeGenerator.getRandomJoke"
  /\ result = NoResult
  /\ result' = formatResponse(call.joke)
  /\ UNCHANGED <<call, limVars, genVars, clsVars, schVars, defaultGenerators, soloVars>>

\* JokeGenerator.getMultipleJokes once fetchJoke has resolved with
\* call.response
GetMultipleJokesResult ==
  /\ call.api = "JokeGenerator.getMultipleJokes result"
  /\ result = NoResult
  /\ result' = getMultipleJokesResult(call.response)
  /\ UNCHANGED <<call, limVars, genVars, clsVars, schVars, defaultGenerators, soloVars>>

NextCalls ==
  \/ ClientBuildUrl
  \/ GeneratorBuildUrl
  \/ GetMultipleJokes
  \/ GetProgrammingJoke
  \/ FormatJoke
  \/ GetRandomJoke
  \/ GetMultipleJokesResult

\* one call with any of the explored arguments
InitCalls ==
  /\ InitLimiter /\ config = [maxRequests |-> MaxCap, windowMs |-> MaxWindow]
  /\ InitIdle /\ InitCls
  /\ schedCfg = [maxRequests |-> MaxReservoir, intervalMs |-> TickMs]
  /\ InitSched
  /\ call \in BuilderCalls \cup FormatterCalls
  /\ result = NoResult
  /\ defaultGenerators = 0
  /\ InitUnobserved

SpecCalls == InitCalls /\ [][NextCalls]_vars

\* the text has pat at position i
HasAt(text, pat, i) ==
  /\ i + Len(pat) - 1 <= Len(text)
  /\ \A k \in 1..Len(pat) : text[i + k - 1] = pat[k]
\* the text contains pat
Has(text, pat) == \E i \in 1..Len(text) : HasAt(text, pat, i)
\* the position of the first piece p of the text, or Len(text) + 1
RECURSIVE IndexFrom(_, _, _)
IndexFrom(text, p, i) ==
  IF i > Len(text) \/ text[i] = p THEN i ELSE IndexFrom(text, p, i + 1)
\* the query string of a URL (after its "?")
QueryOf(url) == SubSeq(url, IndexFrom(url, "?", 1) + 1, Len(url))
\* the path segment of a URL: from after the piece `slash` to the "?"
SegmentOf(url, slash) ==
  SubSeq(url, IndexFrom(url, slash, 1) + 1, IndexFrom(url, "?", 1) - 1)
\* the name=value parts of a query string, each as <<name, serialized value>>
RECURSIVE ParamsOf(_)
ParamsOf(query) ==
  IF query = <<>> THEN <<>>
  ELSE LET end == IndexFrom(query, "&", 1)
       IN  <<(<<query[1], SubSeq(query, 3, end - 1)>>)>>
           \o ParamsOf(SubSeq(query, end + 1, Len(query)))
\* the serialized values of the parameters called name in a URL
ValuesOf(url, name) ==
  LET ps == ParamsOf(QueryOf(url))
  IN  [i \in 1..Len(SelectSeq(ps, LAMBDA q : q[1] = name)) |->
         SelectSeq(ps, LAMBDA q : q[1] = name)[i][2]]

(* ---------------- the module-level getRandomJoke helper ---------------- *)
(* The helper keeps one JokeGenerator in the module variable                *)
(* defaultGenerator. Its synchronous part - the null test, the construction *)
(* and defaultGenerator.getRandomJoke(options) up to the first await of     *)
(* fetchJoke, the admission included - runs without interruption; state is  *)
(* the bucket of the RateLimiter of the generator that was constructed      *)
(* last. The clock is read once per call here (SpecGen examines the drift   *)
(* between fetchJoke's two readings).                                       *)

\* createDefaultRateLimiter
DefaultMaxRequests == 10
DefaultWindowMs == 60000
\* the helper's clock advances by this much
HelperStep == DefaultWindowMs \div 2
\* a RateLimiter constructed at time t
NewLimiter(t) == [tokens |-> config.maxRequests, lastRefill |-> t]

\* fetchJoke of call r on the bucket lim, from the admission to its first
\* await or the RateLimitError
HelperFetchJoke(r, lim) ==
  LET a == tryConsume(lim, now) IN
  /\ state' = a.state
  /\ grantsInWindow' =
       Min(DefaultMaxRequests + 1,
           (IF WindowElapsed(lim, now) THEN 0 ELSE grantsInWindow)
             + (IF a.ok THEN 1 ELSE 0))
  /\ IF a.ok
       THEN /\ pc' = [pc EXCEPT ![r] = "awaitFetch"]
            /\ fetchCalls' = [fetchCalls EXCEPT ![r] = @ + 1]
            /\ UNCHANGED retryAfter
       ELSE /\ pc' = [pc EXCEPT ![r] = "RateLimitError"]
            /\ retryAfter' = [retryAfter EXCEPT ![r] =
                                getTimeUntilRefill(a.state, now)]
            /\ UNCHANGED fetchCalls

\* a helper that constructs a new JokeGenerator for every call
HelperGetRandomJoke_alwaysConstructs(r) ==
  /\ pc[r] = "idle"
  /\ defaultGenerators' = Min(2, defaultGenerators + 1)
  /\ HelperFetchJoke(r, NewLimiter(now))
  /\ UNCHANGED <<config, now, ret, freshCalls, freshGrants, net>>
  /\ UNCHANGED <<clsVars, schVars, pureVars, soloVars>>

\* getRandomJoke(options) of the module: constructs the default generator
\* when there is none, and calls its getRandomJoke
HelperGetRandomJoke(r) ==
  /\ pc[r] = "idle"
  /\ defaultGenerators' = IF defaultGenerators = 0 THEN 1 ELSE defaultGenerators
  /\ HelperFetchJoke(r, IF defaultGenerators = 0 THEN NewLimiter(now)
                        ELSE state)
  /\ UNCHANGED <<config, now, ret, freshCalls, freshGrants, net>>
  /\ UNCHANGED <<clsVars, schVars, pureVars, soloVars>>

\* HelperStep ms pass
HelperElapse ==
  /\ now < 2 * DefaultWindowMs
  /\ now' = now + HelperStep
  /\ UNCHANGED <<config, state, ret, freshCalls, freshGrants, grantsInWindow>>
  /\ UNCHANGED <<genVars, otherVars>>

NextHelper ==
  \/ HelperElapse
  \/ \E r \in Reqs : HelperGetRandomJoke(r)
  \/ \E r \in Reqs : \E o \in FetchOutcomes : FetchSettles(r, o)
  \/ \E r \in Reqs : AfterFetch(r)
  \/ \E r \in Reqs : \E o \in JsonOutcomes : JsonSettles(r, o)
  \/ \E r \in Reqs : AfterJson(r)
  \/ \E r \in Reqs : Collect(r)

\* the module is loaded: no default generator yet
InitHelper ==
  /\ config = [maxRequests |-> DefaultMaxRequests, windowMs |-> DefaultWindowMs]
  /\ state = NewLimiter(0)
  /\ now = 0
  /\ ret = NoRet
  /\ freshCalls = 0
  /\ freshGrants = 0
  /\ grantsInWindow = 0
  /\ InitIdle /\ InitCls
  /\ schedCfg = [maxRequests |-> MaxReservoir, intervalMs |-> TickMs]
  /\ InitSched
  /\ call = NoCall
  /\ result = NoResult
  /\ defaultGenerators = 0
  /\ InitUnobserved

SpecHelper == InitHelper /\ [][NextHelper]_vars

(* ---------------- one caller of one RateLimiter ---------------- *)

\* the most grants counted at one clock value
MaxRecent == 2 * MaxCap + 1

\* recent after the clock advanced by k and n more grants were made at the
\* clock value reached
Aged(k, n) ==
  [a \in 0..MaxWindow |->
     IF a = 0 THEN Min(MaxRecent, (IF k = 0 THEN recent[0] ELSE 0) + n)
     ELSE IF a >= k THEN recent[a - k] ELSE 0]

RECURSIVE GrantsWithin(_)
\* the grants at the clock values now - w .. now
GrantsWithin(w) ==
  IF w < 0 THEN 0 ELSE recent[w] + GrantsWithin(w - 1)

\* the admission step of fetchJoke by the only caller: tryConsume(), and on
\* a denial getTimeUntilRefill() for the error's retryAfter, read d ms later
SoloTryConsume ==
  LET r == tryConsume(state, now)
      q == tryConsume(quiet.state, now) IN
  /\ state' = r.state
  /\ ret' = [op |-> "tryConsume", ok |-> r.ok, n |-> 0]
  /\ CountCall(state, now, r.ok)
  /\ quiet' = [state |-> q.state, ok |-> q.ok]
  /\ IF r.ok
       THEN /\ now' = now
            /\ hint' = [due |-> -1,
                        retried |-> hint.due >= 0 /\ now >= hint.due]
            /\ recent' = Aged(0, 1)
       ELSE \E d \in 0..MaxDrift :
            /\ now + d <= MaxTime
            /\ now' = now + d
            /\ hint' = [due |-> now + d + getTimeUntilRefill(r.state, now + d),
                        retried |-> hint.due >= 0 /\ now >= hint.due]
            /\ recent' = Aged(d, 0)
  /\ UNCHANGED config
  /\ UNCHANGED <<genVars, clsVars, schVars, pureVars, defaultGenerators>>

\* getRateLimitStatus() by the only caller; the twin run does not make it
SoloStatus ==
  LET a == getAvailableTokens(state, now) IN
  /\ state' = a.state
  /\ CountRefill(state, now)
  /\ UNCHANGED <<config, now, ret>>
  /\ UNCHANGED <<genVars, clsVars, schVars, pureVars, defaultGenerators,
                 soloVars>>

\* the clock advances
SoloTick ==
  /\ now < MaxTime
  /\ now' = now + 1
  /\ recent' = Aged(1, 0)
  /\ UNCHANGED <<config, state, ret, freshCalls, freshGrants, grantsInWindow>>
  /\ UNCHANGED <<genVars, clsVars, schVars, pureVars, defaultGenerators,
                 quiet, hint>>

NextSolo ==
  \/ SoloTick
  \/ SoloTryConsume
  \/ SoloStatus

\* both runs construct the same limiter at Date.now() = 0
InitSolo ==
  /\ InitLimiter /\ InitIdle /\ InitCls
  /\ schedCfg = [maxRequests |-> MaxReservoir, intervalMs |-> TickMs]
  /\ InitSched
  /\ call = NoCall
  /\ result = NoResult
  /\ defaultGenerators = 0
  /\ quiet = [state |-> state, ok |-> FALSE]
  /\ hint = NoHint
  /\ recent = NoRecent

SpecSolo == InitSolo /\ [][NextSolo]_vars

(* ---------------- claims about the RateLimiter (Spec) ---------------- *)

\* C1 as stated: on a fresh limiter with no time elapsed, exactly the first
\* maxRequests tryConsume() calls return true and every later one false
\* (after k calls, min(k, maxRequests) of them were granted), for every
\* configuration.
C1_FirstNGranted_AnyWindow ==
  now = 0 => freshGrants = Min(freshCalls, config.maxRequests)

\* C1 amended: the same for every limiter whose windowMs is at least 1 (with
\* windowMs = 0 every call refills first, so every call is granted).
C1_FirstNGranted ==
  (now = 0 /\ config.windowMs >= 1) =>
     freshGrants = Min(freshCalls, config.maxRequests)

\* the (N+1)-th call of a fresh limiter with N >= 1 has just been denied
C1_Witness ==
  /\ now = 0 /\ config.windowMs >= 1 /\ config.maxRequests >= 1
  /\ freshCalls = config.maxRequests + 1
  /\ freshGrants = config.maxRequests
  /\ ret.op = "tryConsume" /\ ~ret.ok

\* C3: in every reachable state 0 <= tokens <= maxRequests.
C3_TokensInRange ==
  /\ 0 <= state.tokens
  /\ state.tokens <= config.maxRequests

\* a budget of at least 2 exhausted again after a refill
C3_Witness ==
  /\ config.maxRequests >= 2
  /\ state.lastRefill > 0
  /\ state.tokens = 0
  /\ ret.op = "tryConsume"

\* C4 as stated: once windowMs has elapsed since lastRefill the next
\* tryConsume() returns true, and getAvailableTokens() returns maxRequests.
C4_RefillThenGrant_AnyCapacity ==
  [][ /\ (CallTryConsume /\ WindowElapsed(state, now)) => ret'.ok
      /\ (CallGetAvailableTokens /\ WindowElapsed(state, now))
            => ret'.n = config.maxRequests ]_vars

\* C4 amended: once windowMs has elapsed since lastRefill the next
\* tryConsume() returns true provided maxRequests >= 1, and
\* getAvailableTokens() at that moment returns maxRequests (a full reset) for
\* every capacity.
C4_RefillThenGrant ==
  [][ /\ (CallTryConsume /\ WindowElapsed(state, now) /\ config.maxRequests >= 1)
            => ret'.ok
      /\ (CallGetAvailableTokens /\ WindowElapsed(state, now))
            => ret'.n = config.maxRequests ]_vars

\* a tryConsume() granted at the very time of a refill that followed the
\* construction window, out of a budget of at least 2
C4_Witness ==
  /\ ret.op = "tryConsume" /\ ret.ok
  /\ config.maxRequests >= 2 /\ config.windowMs >= 1
  /\ state.lastRefill = now /\ now = 2 * config.windowMs
  /\ state.tokens = config.maxRequests - 1

\* C5: while now - lastRefill < windowMs no step increases tokens, and a
\* tryConsume() on an exhausted limiter returns false.
C5_NoPartialRefill ==
  [][ /\ ~WindowElapsed(state, now) => state'.tokens <= state.tokens
      /\ (CallTryConsume /\ state.tokens = 0 /\ ~WindowElapsed(state, now))
            => ~ret'.ok ]_vars

\* a denial in a partially elapsed window of a limiter with capacity >= 1
C5_Witness ==
  /\ ret.op = "tryConsume" /\ ~ret.ok
  /\ config.maxRequests >= 1
  /\ now > state.lastRefill
  /\ ~WindowElapsed(state, now)
  /\ state.tokens = 0

\* C6: with maxRequests = 0 every tryConsume() returns false.
C6_ZeroCapacityDenies ==
  config.maxRequests = 0 =>
     /\ ret.op = "tryConsume" => ~ret.ok
     /\ grantsInWindow = 0
     /\ freshGrants = 0

\* a denial of a zero-capacity limiter after a window rollover
C6_Witness ==
  /\ config.maxRequests = 0 /\ config.windowMs >= 1
  /\ ret.op = "tryConsume" /\ ~ret.ok
  /\ state.lastRefill >= 2 * config.windowMs

\* C7: getTimeUntilRefill() does not increase over any step that keeps the
\* window anchor, and a call made when windowMs has elapsed returns 0.
C7_TimeUntilRefillMonotone ==
  [][ /\ state'.lastRefill = state.lastRefill
            => getTimeUntilRefill(state', now') <= getTimeUntilRefill(state, now)
      /\ (CallGetTimeUntilRefill /\ WindowElapsed(state, now)) => ret'.n = 0
      /\ (CallGetTimeUntilRefill /\ ret.op = "getTimeUntilRefill")
            => ret'.n <= ret.n ]_vars

\* getTimeUntilRefill() returned 0 strictly after the window's end
C7_Witness ==
  /\ ret.op = "getTimeUntilRefill" /\ ret.n = 0
  /\ config.windowMs >= 2
  /\ now - state.lastRefill > config.windowMs

(* ---------------- claims about JokeGenerator (SpecGen) ---------------- *)

\* C2: under every interleaving of concurrent fetchJoke calls the token count
\* never goes below 0, at most maxRequests calls are admitted between two
\* consecutive refills, and every token of the budget is either still there
\* or was spent on exactly one admitted call (so two calls racing for the
\* last token admit exactly one).
C2_NoOverdraw ==
  /\ state.tokens >= 0
  /\ grantsInWindow <= config.maxRequests
  /\ grantsInWindow + state.tokens = config.maxRequests

\* two calls raced for the only token of the window: one is at its await,
\* the other was rejected
C2_Witness ==
  /\ config.maxRequests = 1 /\ config.windowMs >= 1
  /\ state.tokens = 0 /\ grantsInWindow = 1
  /\ \E r1, r2 \in Reqs :
       /\ r1 # r2
       /\ pc[r1] = "awaitFetch"
       /\ pc[r2] = "RateLimitError"

\* C8: a call makes a fetch() only in the step in which tryConsume() grants,
\* and a call that tryConsume() denies ends in RateLimitError without any
\* fetch().
C8_AdmissionBeforeIO ==
  [][ \A r \in Reqs :
        /\ fetchCalls'[r] > fetchCalls[r]
              => (pc[r] = "idle" /\ tryConsume(state, now).ok)
        /\ (pc[r] = "idle" /\ pc'[r] # "idle" /\ ~tryConsume(state, now).ok)
              => (pc'[r] = "RateLimitError" /\ fetchCalls'[r] = 0)
        /\ pc'[r] = "RateLimitError" => fetchCalls'[r] = 0 ]_vars

\* one call was denied and made no fetch() while another, admitted, made one
C8_Witness ==
  \E r1, r2 \in Reqs :
    /\ pc[r1] = "RateLimitError" /\ fetchCalls[r1] = 0
    /\ pc[r2] = "awaitFetch" /\ fetchCalls[r2] = 1

\* C9: every RateLimitError of a limiter with windowMs > 0 carries a
\* retryAfter strictly greater than 0.
C9_RetryAfterPositive ==
  \A r \in Reqs :
    (pc[r] = "RateLimitError" /\ config.windowMs > 0) => retryAfter[r] > 0

\* C10: every fetchJoke call that has started eventually settles, with a
\* result or with one error.
C10_EveryRequestSettles ==
  \A r \in Reqs : (pc[r] \in Suspended) ~> (pc[r] \in Settled)
\* C10, its safety half: a call moves only along
\* idle -> {RateLimitError | awaitFetch} -> {awaitJson | Error} ->
\* {resolved | JokeAPIError | Error}, and a settled call keeps its one
\* outcome until the caller has collected it.
C10_SettlesAtMostOnce ==
  [][ \A r \in Reqs :
        /\ pc[r] = "idle" => pc'[r] \in {"idle", "awaitFetch", "RateLimitError"}
        /\ pc[r] = "awaitFetch" => pc'[r] \in {"awaitFetch", "awaitJson", "Error"}
        /\ pc[r] = "awaitJson"
              => pc'[r] \in {"awaitJson", "resolved", "JokeAPIError", "Error"}
        /\ pc[r] \in Settled => pc'[r] \in {pc[r], "idle"} ]_vars

(* ---------------- claims about the classification (SpecCls) ---------------- *)

\* C12: a response whose status is not a success status makes the call fail
\* with the transport failure that carries the status (JokeApiClientError
\* with code = status in getJoke, the wrapping Error whose message ends in the
\* status in fetchJoke), whatever its body holds: the body is not read, so
\* its error indicator is never examined and it is never returned.
C12_StatusBeforePayload ==
  (resp.kind = "response" /\ ~Ok(resp)) =>
     /\ cliOut # Pending =>
          /\ cliOut.settled = "rejected"
          /\ cliOut.name = "JokeApiClientError"
          /\ cliOut.code = <<resp.status>>
          /\ cliOut.message = <<"HTTP error! status: ", ToString(resp.status)>>
          /\ cliOut.causedBy = <<>>
          /\ ~cliOut.readJson
     /\ genOut # Pending =>
          /\ genOut.settled = "rejected"
          /\ genOut.name = "Error"
          /\ genOut.message = <<"Failed to fetch joke: ", "HTTP error! status: ",
                                ToString(resp.status)>>
          /\ ~genOut.readJson

\* both variants have classified a 500 whose body is a well-formed error
\* payload with code 106
C12_Witness ==
  /\ resp.kind = "response" /\ resp.status = 500
  /\ resp.body.valid /\ resp.body.error /\ resp.body.code = <<106>>
  /\ cliOut.settled = "rejected" /\ cliOut.code = <<500>>
  /\ genOut.settled = "rejected" /\ genOut.name = "Error"

\* a success status with a payload whose error indicator is true
DomainFailureCase == resp.kind = "response" /\ Ok(resp) /\ resp.body.valid /\ resp.body.error

\* C13 as stated: on a success status with a payload whose error indicator is
\* true the call rejects with the domain error (JokeAPIError in fetchJoke,
\* JokeApiClientError in getJoke) whose code, message and causedBy equal the
\* payload's.
C13_DomainErrorEqualsPayload ==
  DomainFailureCase =>
     /\ cliOut # Pending =>
          /\ cliOut.settled = "rejected" /\ cliOut.name = "JokeApiClientError"
          /\ cliOut.code = resp.body.code
          /\ cliOut.message = <<resp.body.message>>
          /\ cliOut.causedBy = resp.body.causedBy
     /\ genOut # Pending =>
          /\ genOut.settled = "rejected" /\ genOut.name = "JokeAPIError"
          /\ genOut.code = resp.body.code
          /\ genOut.message = <<resp.body.message>>
          /\ genOut.causedBy = resp.body.causedBy

\* C13 amended: the domain error's code and causedBy equal the payload's, and
\* its message equals the payload's message when that is not empty; an empty
\* or missing message is replaced by 'API returned an error' (getJoke) or
\* 'Unknown API error' (fetchJoke).
C13_DomainErrorFromPayload ==
  DomainFailureCase =>
     /\ cliOut # Pending =>
          /\ cliOut.settled = "rejected" /\ cliOut.name = "JokeApiClientError"
          /\ cliOut.code = resp.body.code
          /\ cliOut.message = IF resp.body.message # "" THEN <<resp.body.message>>
                              ELSE <<"API returned an error">>
          /\ cliOut.causedBy = resp.body.causedBy
     /\ genOut # Pending =>
          /\ genOut.settled = "rejected" /\ genOut.name = "JokeAPIError"
          /\ genOut.code = resp.body.code
          /\ genOut.message = IF resp.body.message # "" THEN <<resp.body.message>>
                              ELSE <<"Unknown API error">>
          /\ genOut.causedBy = resp.body.causedBy

\* both variants have rejected the payload {error: true, code: 106,
\* message: 'No matching joke found', causedBy: [one reason]} with its fields
C13_Witness ==
  /\ DomainFailureCase
  /\ resp.body.code = <<106>> /\ resp.body.message = "No matching joke found"
  /\ resp.body.causedBy # <<>>
  /\ cliOut.name = "JokeApiClientError" /\ cliOut.code = <<106>>
  /\ cliOut.causedBy = resp.body.causedBy
  /\ genOut.name = "JokeAPIError" /\ genOut.message = <<"No matching joke found">>

\* the failure kinds the taxonomy names
TaxonomyCauses == {"transport", "timeout", "domain", "admission"}

\* C14: within one variant, two failures of different causes (transport,
\* domain, admission denied) never carry errors of the same class.
C14_CausesHaveDistinctClasses ==
  \A a \in seen : \A b \in seen :
     (/\ a.variant = b.variant
      /\ a.cause \in TaxonomyCauses /\ b.cause \in TaxonomyCauses
      /\ a.cause # b.cause)
        => a.name # b.name

(* ---------------- claims about JokeApiClient and its scheduler (SpecClient) -- *)

\* the fetch of call j has started and has not settled
FetchPending(j) == jpc[j] = "awaitFetch" /\ jnet[j] = "none"

\* C11: the abort timer of a call is armed, when its fetch starts, with
\* options.timeout or else the client's defaultTimeout; the fetch is pending
\* only while that time has not run out (at the latest when it has, with no
\* response arrived, the fetch is aborted); and an aborted call rejects with
\* JokeApiTimeoutError: it takes no other way out, so never resolves.
C11_TimeoutRejects ==
  [][\A j \in Jobs :
       /\ \A t \in TimeoutOptions :
            Launch(j, t) => timer'[j] = (IF t # 0 THEN t ELSE DefaultTimeout)
       /\ FetchPending(j)' => timer'[j] >= 0
       /\ (FetchPending(j) /\ ~FetchPending(j)' /\ timer[j] = 0 /\ jnet'[j] \notin FetchOutcomes)
            => jnet'[j] = "abortError"
       /\ jnet[j] = "abortError" =>
            \/ jpc'[j] = "awaitFetch" /\ jnet'[j] = "abortError"
            \/ jpc'[j] = "JokeApiTimeoutError" ]_vars

\* a call has been rejected with JokeApiTimeoutError while the next one is
\* already waiting behind it
C11_Witness ==
  \E j \in Jobs : \E k \in Jobs :
     /\ jpc[j] = "JokeApiTimeoutError" /\ jfetches[j] = 1
     /\ jpc[k] = "QUEUED"

\* C17: at most one scheduled operation holds the scheduler's slot (waiting
\* for its launch or executing) at any time, so at most one is executing, and
\* an operation is launched only when none is executing.
C17_OneAtATime ==
  [][ /\ Cardinality({j \in Jobs : jpc[j] \in {"RUNNING"} \cup Executing}) <= 1
      /\ \A j \in Jobs :
           (jpc[j] = "RUNNING" /\ jpc'[j] \in Executing)
              => \A k \in Jobs : jpc[k] \notin Executing ]_vars

\* one operation is executing while another one is queued and held back by
\* nothing else: the reservoir has a unit and the spacing has elapsed
C17_Witness ==
  \E j \in Jobs : \E k \in Jobs :
     /\ jpc[j] \in Executing
     /\ jpc[k] = "QUEUED"
     /\ reservoir >= 1 /\ nextRequestIn = 0 /\ stopPhase = "no"

C19_Fifo ==
  [][\A j \in Jobs :
       (jpc[j] = "RUNNING" /\ jpc'[j] \in Executing)
          => (order # <<>> /\ j = Head(order)) ]_vars

\* call 2 was scheduled before call 1 and is about to be launched while call
\* 1 waits in the queue
C19_Witness ==
  /\ NumJobs >= 2
  /\ order = <<2, 1>>
  /\ jpc[2] = "RUNNING" /\ wait[2] = 0
  /\ jpc[1] = "QUEUED"

\* C20: once the promise of stop() has resolved nothing is waiting or
\* executing, no operation is launched or registered any more, and a call
\* scheduled from then on is rejected without a fetch.
C20_StoppedStaysStopped ==
  [][stopPhase = "resolved" =>
       /\ queue = <<>>
       /\ \A j \in Jobs :
            /\ jpc[j] \notin {"QUEUED", "RUNNING"} \cup Executing
            /\ jpc'[j] \notin {"QUEUED", "RUNNING"} \cup Executing
            /\ jfetches'[j] <= jfetches[j]
            /\ (jpc[j] = "idle" /\ jpc'[j] # "idle") => jpc'[j] = "refused" ]_vars

\* stop() has resolved after dropping a waiting operation, and a call
\* scheduled afterwards has been refused
C20_Witness ==
  /\ stopPhase = "resolved"
  /\ \E j \in Jobs : jpc[j] = "dropped" /\ jfetches[j] = 0
  /\ \E k \in Jobs : jpc[k] = "refused" /\ jfetches[k] = 0

(* ---------------- claims about both variants ---------------- *)

C21_StopIdempotent ==
  stopPhase # "no" => laterStop \in {"none", "resolved"}

\* C22: a call that waits for admission does not wait longer than its
\* effective timeout (DefaultTimeout is the largest effective timeout);
\* stated for the call in slot 1 and the limiters that admit at all
\* (maxRequests >= 1)
C22_QueueWaitWithinTimeout ==
  schedCfg.maxRequests >= 1 /\ jpc[1] \in Waiting => waited <= DefaultTimeout

(* ---------------- claims about the URL builders (SpecCalls) ------------- *)

\* the call under examination is a call of api and has been made
Made(api) == call.api = api /\ result # NoResult

\* C23: the path segment of JokeApiClient.buildUrl is the listed categories
\* in the caller's order with "," between them, the one category given, or
\* "Any" when none is given
C23_CategorySegment ==
  Made("JokeApiClient.buildUrl") =>
    LET seg == SegmentOf(result, "/joke/")
        cat == call.options.category
        n == Len(cat.items)
    IN  /\ cat.isArray /\ n >= 1 =>
             /\ Len(seg) = 2 * n - 1
             /\ \A i \in 1..n : seg[2 * i - 1] = cat.items[i]
             /\ \A i \in 1..(n - 1) : seg[2 * i] = ","
        /\ ~cat.isArray /\ n = 1 => seg = cat.items
        /\ ~cat.isArray /\ n = 0 => seg = <<"Any">>

\* two different categories were listed and came out in the caller's order
C23_Witness ==
  /\ Made("JokeApiClient.buildUrl")
  /\ call.options.category = [isArray |-> TRUE, items |-> <<"Programming", "Pun">>]
  /\ Has(result, <<"/joke/", "Programming", ",", "Pun">>)

\* C24: JokeApiClient.buildUrl emits amount=<amount> for every amount in
\* 2..10, no amount parameter for amount 1 or a missing amount, and never
\* an amount outside 1..10
C24_AmountOnlyAboveOne ==
  Made("JokeApiClient.buildUrl") =>
    LET emitted == ValuesOf(result, "amount")
        amount == call.options.amount
    IN  /\ amount \in 2..10 => emitted = <<(<<ToString(amount)>>)>>
        /\ amount \in {0, 1} => emitted = <<>>
        /\ \A i \in 1..Len(emitted) :
             emitted[i] \in {<<ToString(k)>> : k \in 1..10}

\* amount 5 was asked for and amount=5 emitted
C24_Witness ==
  /\ Made("JokeApiClient.buildUrl")
  /\ call.options.amount = 5
  /\ Has(result, <<"amount", "=", "5">>)

\* C25: the URL requested by getMultipleJokes(count) carries
\* amount = min(10, max(1, count)), and no URL of the JokeGenerator carries
\* an amount outside 1..10
C25_CountClamped ==
  /\ Made("JokeGenerator.getMultipleJokes") =>
       ValuesOf(result, "amount") =
         <<(<<ToString(IF call.count < 1 THEN 1
                       ELSE IF call.count > 10 THEN 10 ELSE call.count)>>)>>
  /\ Made("JokeGenerator.getMultipleJokes") \/ Made("JokeGenerator.buildUrl") =>
       \A i \in 1..Len(ValuesOf(result, "amount")) :
         ValuesOf(result, "amount")[i] \in {<<ToString(k)>> : k \in 1..10}

\* a count above 10 was asked for and amount=10 requested
C25_Witness ==
  /\ Made("JokeGenerator.getMultipleJokes")
  /\ call.count > 10
  /\ Has(result, <<"amount", "=", "10">>)

\* the option called name of the call is missing or empty
Unset(name) ==
  IF name = "amount" THEN call.options.amount = 0
  ELSE IF name = "blacklistFlags"
    THEN call.options.blacklistFlags \in {<<>>, <<(<<>>)>>}
  ELSE IF name = "contains" /\ call.api = "JokeGenerator.buildUrl"
    THEN call.options.searchString = <<>>
  ELSE call.options[name] = <<>>

\* both builders leave out the parameter of every unset option and emit no
\* parameter with an empty value
OmitsUnset ==
  /\ \A name \in {"lang", "blacklistFlags", "type", "contains", "amount"} :
       Unset(name) => ValuesOf(result, name) = <<>>
  /\ \A i \in 1..Len(ParamsOf(QueryOf(result))) :
       ParamsOf(QueryOf(result))[i][2] # <<>>

JokeFlagKeys ==
  {"nsfw", "religious", "political", "racist", "sexist", "explicit"}

\* C29: getProgrammingJoke() asks for the category Programming with a
\* blacklist of exactly the keys of JokeFlags, each once;
\* getProgrammingJoke(false) sends no blacklistFlags parameter
C29_SafeModeBlacklistsAll ==
  Made("JokeApiClient.getProgrammingJoke") =>
    LET vals == ValuesOf(result, "blacklistFlags")
    IN  /\ SegmentOf(result, "/joke/") = <<"Programming">>
        /\ call.safe =>
             /\ Len(vals) = 1
             /\ {decode(vals[1])[i] : i \in 1..Len(vals[1])} \ {","}
                  = JokeFlagKeys
             /\ Len(vals[1]) = 2 * Cardinality(JokeFlagKeys) - 1
        /\ ~call.safe => vals = <<>>

\* the safe call was made and sent a blacklist
C29_Witness ==
  /\ Made("JokeApiClient.getProgrammingJoke")
  /\ call.safe
  /\ Has(result, <<"blacklistFlags", "=", "nsfw">>)

(* ---------------- claims about the formatters (SpecCalls) ---------------- *)

\* the text is first, a line break, then second
TwoLines(text, first, second) ==
  /\ Len(text) = Len(first) + 1 + Len(second)
  /\ SubSeq(text, 1, Len(first)) = first
  /\ text[Len(first) + 1] = "\n"
  /\ SubSeq(text, Len(first) + 2, Len(text)) = second

\* the string is the display string of the joke: its text, or its setup, a
\* line break and its delivery
Displays(string, joke) ==
  /\ string # <<>>
  /\ IF joke.type = "single" THEN string[1] = joke.joke[1]
     ELSE TwoLines(string[1], joke.setup[1], joke.delivery[1])

\* C27: every joke is formatted to its text (single form) or to its setup,
\* one line break and its delivery (two-part form), by formatJoke, by
\* getRandomJoke and, element by element in the order of the batch, by
\* getMultipleJokes
C27_FormatsVerbatim ==
  /\ Made("JokeApiClient.formatJoke") \/ Made("JokeGenerator.getRandomJoke") =>
       (call.joke \in Jokes => Displays(result, call.joke))
  /\ Made("JokeGenerator.getMultipleJokes result") =>
       IF call.response.hasJokes
         THEN /\ Len(result) = Len(call.response.jokes)
              /\ \A i \in 1..Len(result) :
                   Displays(result[i], call.response.jokes[i])
       ELSE /\ Len(result) = 1
            /\ Displays(result[1], call.response.joke)

\* a batch of a two-part joke and a different single joke was formatted
C27_Witness ==
  /\ Made("JokeGenerator.getMultipleJokes result")
  /\ call.response.hasJokes
  /\ Len(call.response.jokes) = 2
  /\ call.response.jokes[1].type = "twopart"
  /\ call.response.jokes[1].setup # call.response.jokes[1].delivery
  /\ call.response.jokes[2].type = "single"
  /\ result[1] = <<(<<"X", "\n", "Y">>)>>

\* C28: the formatter makes a non-empty string of every joke, of either
\* form, that the classifier handed on (stated for the payloads that have
\* the fields of their form)
C28_FormatNonEmpty ==
  /\ Made("JokeApiClient.formatJoke") \/ Made("JokeGenerator.getRandomJoke")
  /\ call.joke \in Jokes
  => result # <<>> /\ result[1] # <<>>

(* ---------------- claims about the getRandomJoke helper (SpecHelper) ----- *)

\* C30: the helper constructs at most one default JokeGenerator, and its
\* calls share one budget: no more than 10 are admitted in a window
C30_OneDefaultGenerator ==
  /\ defaultGenerators <= 1
  /\ grantsInWindow <= DefaultMaxRequests

\* with a call still in flight, the 11th call of the window was denied
C30_Witness ==
  /\ defaultGenerators = 1
  /\ grantsInWindow = DefaultMaxRequests
  /\ \E r \in Reqs : pc[r] = "RateLimitError"
  /\ \E r \in Reqs : pc[r] \in Suspended

(* ---------------- more claims about the RateLimiter (Spec) ---------------- *)

\* C31: lastRefill never decreases, and it changes only in the refill of a
\* tryConsume() or getAvailableTokens() call, only to the current time, and
\* only when now - lastRefill >= windowMs
C31_AnchorOnlyForward ==
  [][ /\ state'.lastRefill >= state.lastRefill
      /\ state'.lastRefill # state.lastRefill
           => /\ CallTryConsume \/ CallGetAvailableTokens
              /\ state'.lastRefill = now
              /\ now - state.lastRefill >= config.windowMs ]_vars

\* the anchor has moved twice or more, the last time in a status query
C31_Witness ==
  /\ config.windowMs >= 1
  /\ state.lastRefill >= 2 * config.windowMs
  /\ state.lastRefill = now
  /\ ret.op = "getAvailableTokens"

\* C32 as stated: a tryConsume() that returns false leaves tokens and
\* lastRefill as they were; one that returns true leaves one token less
\* than the refill step left
C32_DenialChangesNothing ==
  [][ CallTryConsume =>
        IF ret'.ok
          THEN state'.tokens =
                 (IF WindowElapsed(state, now) THEN config.maxRequests
                                               ELSE state.tokens) - 1
          ELSE state' = state ]_vars

\* C32 amended: a tryConsume() that returns false leaves tokens as they
\* were, and lastRefill too unless maxRequests is 0 and the window has
\* elapsed (then the refill step moves lastRefill to the clock); one that
\* returns true leaves one token less than the refill step left
C32_DenialKeepsTokens ==
  [][ CallTryConsume =>
        IF ret'.ok
          THEN state'.tokens =
                 (IF WindowElapsed(state, now) THEN config.maxRequests
                                               ELSE state.tokens) - 1
          ELSE /\ state'.tokens = state.tokens
               /\ config.maxRequests >= 1 => state' = state
               /\ config.maxRequests = 0 /\ WindowElapsed(state, now)
                    => state'.lastRefill = now ]_vars

\* a denial in a window that began after the construction, on a limiter
\* that can grant
C32_Witness ==
  /\ config.maxRequests >= 1
  /\ ret.op = "tryConsume"
  /\ ~ret.ok
  /\ state.lastRefill > 0
  /\ state.tokens = 0

\* C33: getAvailableTokens() never consumes: after the refill check it
\* returns maxRequests minus the grants since the last refill, tokens are
\* what the refill check left, and a second call at the same clock value
\* returns the same number and changes nothing
C33_QueryNeverConsumes ==
  [][ CallGetAvailableTokens =>
        LET again == getAvailableTokens(state', now') IN
        /\ ret'.n = config.maxRequests - grantsInWindow'
        /\ state'.tokens = IF WindowElapsed(state, now)
                             THEN config.maxRequests ELSE state.tokens
        /\ state'.tokens = ret'.n
        /\ again.n = ret'.n
        /\ again.state = state' ]_vars

\* a query after one of two tokens was granted in the current window
C33_Witness ==
  /\ ret.op = "getAvailableTokens"
  /\ ret.n = 1
  /\ config.maxRequests = 2
  /\ grantsInWindow = 1
  /\ now < state.lastRefill + config.windowMs

(* ---------------- claims about the single caller (SpecSolo) ------------- *)

\* C34 as stated: every tryConsume() returns the same result in the run
\* with status queries and in the twin run without them
C34_SameAdmissions ==
  ret.op = "tryConsume" => ret.ok = quiet.ok

\* C34 amended: a status query takes no token, changes the limiter only by
\* the refill that a tryConsume() at the same clock value would make, and a
\* tryConsume() at that clock value returns the same and leaves the same
\* state with the query before it as without
C34_QueryKeepsNextAdmission ==
  [][ SoloStatus =>
        /\ state' = refill(state, now)
        /\ state'.tokens >= state.tokens
        /\ tryConsume(state', now) = tryConsume(state, now) ]_vars

\* a status query has anchored the window earlier than the twin run's
\* tryConsume() did, and an attempt at a later clock value was denied in
\* both runs
C34_Witness ==
  /\ config.maxRequests >= 1
  /\ state.lastRefill > 0
  /\ state.lastRefill < quiet.state.lastRefill
  /\ ret.op = "tryConsume"
  /\ ~ret.ok
  /\ ~quiet.ok

\* C35: with maxRequests >= 1, the attempt made once the retry hint of the
\* denial before it has run out, with no attempt in between, is admitted
C35_RetryHintSound ==
  config.maxRequests >= 1 /\ hint.retried => ret.ok /\ hint.due = -1

\* an attempt was denied and the next one, made when the hint had run out,
\* refilled and was admitted
C35_Witness ==
  /\ config.maxRequests >= 1
  /\ config.windowMs >= 2
  /\ hint.retried
  /\ ret.ok
  /\ state.lastRefill = now
  /\ state.lastRefill >= config.windowMs

\* C36: with windowMs >= 1, the grants at the clock values of an interval
\* of length windowMs (hence of any shorter one) are at most 2 * maxRequests
C36_TwoBudgetsPerInterval ==
  config.windowMs >= 1 => GrantsWithin(config.windowMs) <= 2 * config.maxRequests

\* a full budget was spent before a window boundary and a full one from
\* the boundary on, within windowMs
C36_Witness ==
  /\ config.windowMs >= 1
  /\ config.maxRequests >= 1
  /\ GrantsWithin(config.windowMs) = 2 * config.maxRequests
  /\ state.tokens = 0

(* ---------------- more claims about the URL builders (SpecCalls) -------- *)

\* C39: every URL of JokeGenerator.buildUrl carries safe-mode=true or a
\* non-empty blacklistFlags parameter; safe-mode=true is there when the
\* caller gives no blacklistFlags and is not there when the caller gives
\* them
C39_AlwaysFiltered ==
  Made("JokeGenerator.buildUrl") =>
    LET safe == ValuesOf(result, "safe-mode")
        black == ValuesOf(result, "blacklistFlags")
        flags == call.options.blacklistFlags
    IN  /\ \/ safe = <<(<<"true">>)>>
           \/ Len(black) = 1 /\ black[1] # <<>>
        /\ flags = <<>> => safe = <<(<<"true">>)>>
        /\ flags # <<>> => safe = <<>>

\* the category names of JokeCategory (the client's type has Any too)
JokeCategory ==
  {"Programming", "Misc", "Dark", "Pun", "Spooky", "Christmas", "Any"}

\* the path segment is one or more category names with "," between them
CategoryList(seg) ==
  /\ seg # <<>>
  /\ Len(seg) % 2 = 1
  /\ \A i \in 1..Len(seg) :
       IF i % 2 = 1 THEN seg[i] \in JokeCategory ELSE seg[i] = ","

\* C40: the path segment of every URL built is a non-empty list of known
\* category names with "," between them; with no category or an empty
\* category list JokeApiClient.buildUrl writes Any and
\* JokeGenerator.buildUrl writes Programming,Misc,Pun
C40_SegmentNeverEmpty ==
  /\ Made("JokeApiClient.buildUrl") =>
       LET seg == SegmentOf(result, "/joke/") IN
       /\ CategoryList(seg)
       /\ call.options.category.items = <<>> => seg = <<"Any">>
  /\ Made("JokeGenerator.buildUrl") =>
       LET seg == SegmentOf(result, "/") IN
       /\ CategoryList(seg)
       /\ call.options.categories \in {<<>>, <<(<<>>)>>}
            => seg = <<"Programming", ",", "Misc", ",", "Pun">>

(* ---------------- more claims about the scheduler (SpecClient) ---------- *)

OwnOutcome == JobSettled \ {"dropped", "refused"}

\* C37: with maxRequests >= 1 and stop() not called, every call submitted
\* through schedule() begins executing and then settles with the result or
\* error of its own operation, also after failures of earlier calls and
\* with the reservoir exhausted when it was submitted
C37_EveryJobRuns ==
  \A j \in Jobs :
    /\ (schedCfg.maxRequests >= 1 /\ jpc[j] = "QUEUED")
         ~> (jpc[j] \in Executing \/ stopPhase # "no")
    /\ (jpc[j] \in Executing) ~> (jpc[j] \in OwnOutcome)

\* with a reservoir of one, a call has failed and the call after it, which
\* had to wait for a refresh, has resolved
C37_Witness ==
  /\ schedCfg.maxRequests = 1
  /\ stopPhase = "no"
  /\ refreshed
  /\ jpc[1] = "TypeError"
  /\ jpc[2] = "resolved"

====
